---- MODULE Spec2Model ----
(***************************************************************************)
(* Model of the XML-conversion gateway: the in-memory job registry         *)
(* (services/gateway/main.py) and the Orchestrator's refinement loop       *)
(* (services/gateway/orchestrator.py) over the three collaborators         *)
(* Analyzer, Generator and Tester; and of the Tester service itself        *)
(* (services/tester/agent.py with the comparator of                        *)
(* services/common/xml_utils.py), as a second specification, TesterSpec,   *)
(* of one call of TesterAgent.test_code.  The functions without state,     *)
(* the Comparator and the Feedback Compiler, are applied to bounded sets   *)
(* of arguments in ComparatorSpec and FeedbackSpec.                        *)
(*                                                                         *)
(* The gateway is one asyncio event loop: a handler or a background task   *)
(* runs without interruption until it awaits a collaborator call.  The     *)
(* only awaits of Orchestrator.run that suspend are the three client.post  *)
(* calls, so an action of the model is the code between two of them.  The  *)
(* one place where a status is written twice between two awaits (ITERATING *)
(* and then ANALYZING) is split at the loop head; while a task stands at   *)
(* the loop head nothing else is scheduled (Idle).                         *)
(*                                                                         *)
(* Accuracies and thresholds are integers in units of 1/10000 (the Tester  *)
(* rounds to 4 decimals).  Texts are sequences of records, one per line or *)
(* per formatted part, so that two texts are equal exactly when the same   *)
(* values were formatted into them.                                        *)
(***************************************************************************)
EXTENDS Integers, Sequences, FiniteSets, TLC

\* ---------------------------------------------------------------- bounds
\* Number of jobs the registry may hold.
MaxJobs == 2
\* Number of background tasks (runs) ever scheduled.
MaxRuns == 2
\* The largest max_iterations a job is created with.
MaxIter == 2

\* ------------------------------------------------------ program constants
\* ConversionJob.accuracy_threshold = 0.95
DefaultThreshold == 9500
\* Orchestrator._check_response: a response with status_code >= 400 is an error
ErrorStatus == 400

\* ------------------------------------------------------------ data model
\* Optional values: None is the empty tuple, a present value v is <<v>>.
None == <<>>

Some(v) == <<v>>

\* JobStatus
JobStatus == {"pending", "analyzing", "generating", "testing", "iterating",
              "completed", "failed"}

\* XmlPair, and the list of pairs clients submit (create_job_json refuses
\* an empty list; the gateway never looks into the pairs).
XmlPair(id) == [pair_id |-> id, input_xml |-> "in_" \o id,
                output_xml |-> "out_" \o id]

PairLists == { <<XmlPair("p1"), XmlPair("p2")>> }

\* TestDetail
TestDetail(id, ok, exp, act, d) ==
    [pair_id |-> id, passed |-> ok, expected_snippet |-> exp,
     actual_snippet |-> act, diff |-> d]

\* TestResult
TestResult(total, npassed, acc, dets, err) ==
    [total_pairs |-> total, passed_pairs |-> npassed, accuracy |-> acc,
     details |-> dets, error_message |-> err]

\* AnalysisResult (a pass-through blob for the gateway)
AnalysisResult(n) == [transformation_rules |-> n]

\* GeneratedCode; GeneratorAgent.generate always answers iteration=1
GeneratedCode(c) == [code |-> c, language |-> "python", iteration |-> 1]

\* ConversionJob(xml_pairs=...) with the model's defaults
ConversionJob(id, pairs, maxit) ==
    [job_id |-> id, status |-> "pending", created_at |-> id,
     xml_pairs |-> pairs, analysis |-> None, generated_code |-> None,
     test_result |-> None, current_iteration |-> 0,
     max_iterations |-> maxit, accuracy_threshold |-> DefaultThreshold,
     message |-> [text |-> ""]]

\* ------------------------------------------------- collaborator responses
\* What the three services may answer.  A call either raises in the HTTP
\* client (timeout, unreachable service) or returns a response with a status
\* code and a JSON body.
OkResponse(data) == [raised |-> FALSE, status_code |-> 200, json |-> data]

ErrorResponse == [raised |-> FALSE, status_code |-> 500,
                  json |-> [detail |-> "internal error"]]

TransportError == [raised |-> TRUE, exc |-> [type |-> "ConnectError"]]

Failures == {ErrorResponse, TransportError}

AnalysisResults == {AnalysisResult(1)}

GeneratedCodes == {GeneratedCode("code")}

\* Scores the Tester may report: a whole-run load failure, one pair of two
\* failing, 19 of 20 passing (exactly the default threshold), all passing.
LoadFailure ==
    TestResult(2, 0, 0, <<>>, "Failed to load generated code: ...")

HalfPassed ==
    TestResult(2, 1, 5000,
               <<TestDetail("p1", TRUE, "out_p1", "out_p1", ""),
                 TestDetail("p2", FALSE, "out_p2", "act_p2", "diff_p2")>>, "")

AtThreshold ==
    TestResult(20, 19, 9500,
               [i \in 1..20 |->
                   IF i < 20
                   THEN TestDetail(ToString(i), TRUE, "out", "out", "")
                   ELSE TestDetail(ToString(i), FALSE, "out", "",
                                   "Runtime error: ...")], "")

AllPassed ==
    TestResult(2, 2, 10000,
               <<TestDetail("p1", TRUE, "out_p1", "out_p1", ""),
                 TestDetail("p2", TRUE, "out_p2", "out_p2", "")>>, "")

TestResults == {LoadFailure, HalfPassed, AtThreshold, AllPassed}

AnalyzerResponses == {OkResponse(a) : a \in AnalysisResults} \cup Failures

GeneratorResponses == {OkResponse(g) : g \in GeneratedCodes} \cup Failures

TesterResponses == {OkResponse(r) : r \in TestResults} \cup Failures

\* ------------------------------------------------------------ formatting
\* f"{x:.0%}": x in 1/10000 as a whole percentage, ties to the even digit.
Percent(x) ==
    LET q == x \div 100
        r == x % 100
    IN  IF r > 50 \/ (r = 50 /\ q % 2 = 1) THEN q + 1 ELSE q

\* ------------------------------------------------------------------ state
VARIABLES
    jobs,    \* main.jobs: the registry, a sequence indexed by job id
    tasks,   \* the background tasks ever scheduled, each one call of
             \* _run_orchestration (see Task)
    tester,  \* the Tester service: one call of TesterAgent.test_code
             \* (see TestCall)
    fn       \* one application of a function of the code that has no
             \* state of its own: compare_xml, xml_diff_report or
             \* _build_feedback (see Applied)

vars == <<jobs, tasks, tester, fn>>

JobIds == 1..MaxJobs

\* The max_iterations a job may be created with.
IterationBudgets == {0, MaxIter}

Registered == DOMAIN jobs

\* The ids a request may name: those of the registry and one unknown id.
RequestIds == Registered \cup {Len(jobs) + 1}

Terminal == {"completed", "failed"}

InFlight == {"analyzing", "generating", "testing", "iterating"}

\* No task stands between two awaits: the event loop may pick any handler.
Idle == \A t \in DOMAIN tasks : tasks[t].pc # "loop"

\* The tasks of job id that have not returned yet.
Running(id) ==
    {t \in DOMAIN tasks : tasks[t].job_id = id /\ tasks[t].pc # "done"}

\* One background task.  job_id, pc and feedback are the frame of
\* _run_orchestration / Orchestrator.run.  The rest records what the run has
\* done: calls are the collaborator calls of its current iteration, cycles
\* the number of Test calls that have returned a score, last_score the last
\* such score, raised whether a call of it has failed, and alone whether it
\* has been the only pending or running task of its job, with no re-run
\* request made since it was scheduled.
Task(id, alone) ==
    [job_id |-> id, pc |-> "scheduled", feedback |-> <<>>, calls |-> <<>>,
     cycles |-> 0, last_score |-> None, raised |-> FALSE, alone |-> alone]

\* A task that has returned: its frame is gone.
Returned(task, raised) ==
    [job_id |-> task.job_id, pc |-> "done", feedback |-> <<>>,
     calls |-> <<>>, cycles |-> 0, last_score |-> None, raised |-> raised,
     alone |-> FALSE]

\* background_tasks.add_task(_run_orchestration, job_id): the tasks already
\* there for this job are no longer alone.
add_task(id) ==
    Append([t \in DOMAIN tasks |->
               IF tasks[t].job_id = id /\ tasks[t].pc # "done"
               THEN [tasks[t] EXCEPT !.alone = FALSE] ELSE tasks[t]],
           Task(id, Running(id) = {}))

\* One collaborator call as the task records it.
Call(service, payload) == [service |-> service, payload |-> payload]

\* ------------------------------------------------------- Feedback Compiler
\* Mutant of FeedbackSection: the excerpts are given whether or not there
\* is a diagnostic.
FeedbackSection_excerpts(detail) ==
    <<[line |-> "--- Pair FAILED ---", pair_id |-> detail.pair_id]>>
    \o (IF detail.expected_snippet # "" \/ detail.actual_snippet # ""
        THEN <<[line |-> "Expected snippet:",
                text |-> detail.expected_snippet],
               [line |-> "Actual snippet:", text |-> detail.actual_snippet]>>
        ELSE <<>>)
    \o <<[line |-> ""]>>

\* The section of one failed detail.
FeedbackSection(detail) ==
    <<[line |-> "--- Pair FAILED ---", pair_id |-> detail.pair_id]>>
    \o (IF detail.diff # ""
        THEN <<[line |-> "Diff:", text |-> detail.diff]>>
        ELSE IF detail.expected_snippet # "" \/ detail.actual_snippet # ""
        THEN <<[line |-> "Expected snippet:",
                text |-> detail.expected_snippet],
               [line |-> "Actual snippet:", text |-> detail.actual_snippet]>>
        ELSE <<>>)
    \o <<[line |-> ""]>>

RECURSIVE FeedbackSections(_)
FeedbackSections(details) ==
    IF details = <<>> THEN <<>>
    ELSE (IF Head(details).passed THEN <<>>
          ELSE FeedbackSection(Head(details)))
         \o FeedbackSections(Tail(details))

\* Mutant of _build_feedback: a score exactly at the threshold gets
\* feedback.
_build_feedback_strict(job) ==
    IF job.test_result = None THEN <<>>
    ELSE LET r == job.test_result[1] IN
         IF r.accuracy > job.accuracy_threshold THEN <<>>
         ELSE <<[line |-> "Previous iteration accuracy:",
                 percent |-> Percent(r.accuracy)],
                [line |-> "Passed pairs:", passed |-> r.passed_pairs,
                 total |-> r.total_pairs],
                [line |-> ""]>>
              \o (IF r.error_message # ""
                  THEN <<[line |-> "Error:", text |-> r.error_message],
                         [line |-> ""]>>
                  ELSE <<>>)
              \o FeedbackSections(r.details)

\* Orchestrator._build_feedback(job); the empty text is <<>>
_build_feedback(job) ==
    IF job.test_result = None THEN <<>>
    ELSE LET r == job.test_result[1] IN
         IF r.accuracy >= job.accuracy_threshold THEN <<>>
         ELSE <<[line |-> "Previous iteration accuracy:",
                 percent |-> Percent(r.accuracy)],
                [line |-> "Passed pairs:", passed |-> r.passed_pairs,
                 total |-> r.total_pairs],
                [line |-> ""]>>
              \o (IF r.error_message # ""
                  THEN <<[line |-> "Error:", text |-> r.error_message],
                         [line |-> ""]>>
                  ELSE <<>>)
              \o FeedbackSections(r.details)

\* ------------------------------------------------------------ Orchestrator
\* Orchestrator._check_response: the error it raises, or the JSON it returns.
_check_response(resp, service_name) ==
    IF resp.status_code >= ErrorStatus
    THEN [raised |-> TRUE,
          exc |-> [type |-> "RuntimeError", service_name |-> service_name,
                   status_code |-> resp.status_code,
                   detail |-> resp.json.detail]]
    ELSE [raised |-> FALSE, data |-> resp.json]

\* What `await client.post(...)` followed by _check_response gives.
Outcome(resp, service_name) ==
    IF resp.raised THEN [raised |-> TRUE, exc |-> resp.exc]
    ELSE _check_response(resp, service_name)

\* The payload key "feedback" is sent only when the text is not empty; the
\* services default a missing key to the empty text.
PayloadFeedback(feedback) == IF feedback # <<>> THEN feedback ELSE <<>>

\* Mutant of analyze_begin: the message is set, the status is not.
analyze_begin_keeps_status(job, feedback) ==
    [job EXCEPT !.message =
                    IF feedback # <<>>
                    THEN [text |-> "Re-analyzing rules with feedback",
                          iteration |-> job.current_iteration]
                    ELSE [text |-> "Analyzing XML pairs..."]]

\* Orchestrator._analyze up to its await: status, message and payload.
analyze_begin(job, feedback) ==
    [job EXCEPT !.status = "analyzing",
                !.message =
                    IF feedback # <<>>
                    THEN [text |-> "Re-analyzing rules with feedback",
                          iteration |-> job.current_iteration]
                    ELSE [text |-> "Analyzing XML pairs..."]]

analyze_payload(job, feedback) ==
    [xml_pairs |-> job.xml_pairs, feedback |-> PayloadFeedback(feedback)]

\* Orchestrator._generate up to its await.
generate_begin(job) ==
    [job EXCEPT !.status = "generating",
                !.message = [text |-> "Generating code",
                             iteration |-> job.current_iteration]]

\* Mutant of generate_payload: the feedback is left out of the payload.
generate_payload_no_feedback(job, feedback) ==
    [xml_pairs |-> job.xml_pairs, analysis |-> job.analysis,
     feedback |-> <<>>]

generate_payload(job, feedback) ==
    [xml_pairs |-> job.xml_pairs, analysis |-> job.analysis,
     feedback |-> PayloadFeedback(feedback)]

\* Orchestrator._test up to its await.
test_begin(job) ==
    [job EXCEPT !.status = "testing",
                !.message = [text |-> "Testing generated code",
                             iteration |-> job.current_iteration]]

test_payload(job) ==
    [xml_pairs |-> job.xml_pairs,
     code |-> IF job.generated_code # None THEN job.generated_code[1].code
              ELSE ""]

\* Mutant of run_except: the except clause records the error but leaves the
\* status as it was.
run_except_keeps_status(job, exc, frame) ==
    [job EXCEPT !.message = [text |-> "Error:", exc |-> exc,
                             traceback |-> <<"run", frame>>]]

\* The except clause of Orchestrator.run.
run_except(job, exc, frame) ==
    [job EXCEPT !.status = "failed",
                !.message = [text |-> "Error:", exc |-> exc,
                             traceback |-> <<"run", frame>>]]

\* The early return of Orchestrator.run once the threshold is met.
run_completed(job) ==
    [job EXCEPT !.status = "completed",
                !.message = [text |-> "Completed with accuracy",
                             accuracy |-> Percent(job.test_result[1].accuracy),
                             iterations |-> job.current_iteration]]

\* The ITERATING branch of Orchestrator.run.
run_iterating(job) ==
    [job EXCEPT !.status = "iterating",
                !.message = [text |-> "below threshold -- re-analyzing rules.",
                             iteration |-> job.current_iteration,
                             accuracy |-> Percent(job.test_result[1].accuracy),
                             threshold |-> Percent(job.accuracy_threshold)]]

\* Mutant of run_exhausted: a used-up budget is reported as a failure.
run_exhausted_fails(job) ==
    [job EXCEPT !.status = "failed",
                !.message = [text |-> "Completed (max iterations reached).",
                             iterations |-> job.current_iteration,
                             accuracy |->
                                 IF job.test_result # None
                                 THEN Some(Percent(job.test_result[1].accuracy))
                                 ELSE None]]

\* The code after the loop of Orchestrator.run.
run_exhausted(job) ==
    [job EXCEPT !.status = "completed",
                !.message = [text |-> "Completed (max iterations reached).",
                             iterations |-> job.current_iteration,
                             accuracy |->
                                 IF job.test_result # None
                                 THEN Some(Percent(job.test_result[1].accuracy))
                                 ELSE None]]

\* Mutant of budget_left: an off-by-one loop condition.
budget_left_inclusive(job) == job.current_iteration <= job.max_iterations

\* The loop condition of Orchestrator.run.
budget_left(job) == job.current_iteration < job.max_iterations

\* Mutant of threshold_met: a strict comparison.
threshold_met_strict(job) ==
    job.test_result # None
    /\ job.test_result[1].accuracy > job.accuracy_threshold

\* The acceptance test of Orchestrator.run.
threshold_met(job) ==
    job.test_result # None
    /\ job.test_result[1].accuracy >= job.accuracy_threshold

\* ------------------------------------------------- the run of one task
\* _run_orchestration(job_id): look the job up and enter Orchestrator.run,
\* whose local feedback starts empty.  (Jobs are never removed, so the
\* lookup of a scheduled id always succeeds.)
_run_orchestration(t) ==
    /\ Idle
    /\ tasks[t].pc = "scheduled"
    /\ tasks[t].job_id \in Registered
    /\ tasks' = [tasks EXCEPT ![t].pc = "loop", ![t].feedback = <<>>]
    /\ UNCHANGED <<jobs, tester, fn>>

\* Mutant of run_loop: the iteration counter is kept on the Orchestrator,
\* which all runs share, so that every job's counter moves.
run_loop_shared_counter(t) ==
    LET id  == tasks[t].job_id
        job == jobs[id]
    IN  /\ tasks[t].pc = "loop"
        /\ UNCHANGED <<tester, fn>>
        /\ IF budget_left(job)
           THEN LET j1 == [job EXCEPT !.current_iteration = @ + 1]
                    j2 == analyze_begin(j1, tasks[t].feedback)
                IN  /\ jobs' = [i \in DOMAIN jobs |->
                                   IF i = id THEN j2
                                   ELSE [jobs[i] EXCEPT
                                            !.current_iteration = @ + 1]]
                    /\ tasks' = [tasks EXCEPT
                          ![t].pc = "analyze",
                          ![t].calls =
                              <<Call("Analyzer",
                                     analyze_payload(j2, tasks[t].feedback))>>]
           ELSE /\ jobs' = [jobs EXCEPT ![id] = run_exhausted(job)]
                /\ tasks' = [tasks EXCEPT ![t] = Returned(@, FALSE)]

\* Mutant of run_loop: the budget is checked against the iterations this
\* run has completed itself, not against the counter of the job.
run_loop_local_budget(t) ==
    LET id  == tasks[t].job_id
        job == jobs[id]
    IN  /\ tasks[t].pc = "loop"
        /\ UNCHANGED <<tester, fn>>
        /\ IF tasks[t].cycles < job.max_iterations
           THEN LET j1 == [job EXCEPT !.current_iteration = @ + 1]
                    j2 == analyze_begin(j1, tasks[t].feedback)
                IN  /\ jobs' = [jobs EXCEPT ![id] = j2]
                    /\ tasks' = [tasks EXCEPT
                          ![t].pc = "analyze",
                          ![t].calls =
                              <<Call("Analyzer",
                                     analyze_payload(j2, tasks[t].feedback))>>]
           ELSE /\ jobs' = [jobs EXCEPT ![id] = run_exhausted(job)]
                /\ tasks' = [tasks EXCEPT ![t] = Returned(@, FALSE)]

\* The head of the while loop: either the next iteration starts (increment,
\* then _analyze up to its await) or the budget is used up and run returns.
run_loop(t) ==
    LET id  == tasks[t].job_id
        job == jobs[id]
    IN  /\ tasks[t].pc = "loop"
        /\ UNCHANGED <<tester, fn>>
        /\ IF budget_left(job)
           THEN LET j1 == [job EXCEPT !.current_iteration = @ + 1]
                    j2 == analyze_begin(j1, tasks[t].feedback)
                IN  /\ jobs' = [jobs EXCEPT ![id] = j2]
                    /\ tasks' = [tasks EXCEPT
                          ![t].pc = "analyze",
                          ![t].calls =
                              <<Call("Analyzer",
                                     analyze_payload(j2, tasks[t].feedback))>>]
           ELSE /\ jobs' = [jobs EXCEPT ![id] = run_exhausted(job)]
                /\ tasks' = [tasks EXCEPT ![t] = Returned(@, FALSE)]

\* The await of _analyze returns: store the analysis and go on into
\* _generate up to its await; an error ends the run in the except clause.
_analyze(t, resp) ==
    LET id  == tasks[t].job_id
        job == jobs[id]
        out == Outcome(resp, "Analyzer")
    IN  /\ Idle
        /\ tasks[t].pc = "analyze"
        /\ UNCHANGED <<tester, fn>>
        /\ IF out.raised
           THEN /\ jobs' = [jobs EXCEPT
                                ![id] = run_except(job, out.exc, "_analyze")]
                /\ tasks' = [tasks EXCEPT ![t] = Returned(@, TRUE)]
           ELSE LET j1 == [job EXCEPT !.analysis = Some(out.data)]
                    j2 == generate_begin(j1)
                IN  /\ jobs' = [jobs EXCEPT ![id] = j2]
                    /\ tasks' = [tasks EXCEPT
                          ![t].pc = "generate",
                          ![t].calls = Append(@,
                              Call("Generator",
                                   generate_payload(j2, tasks[t].feedback)))]

\* Mutant of _generate: a failed Generate call is issued again.
_generate_retries(t, resp) ==
    LET id  == tasks[t].job_id
        job == jobs[id]
        out == Outcome(resp, "Generator")
    IN  /\ Idle
        /\ tasks[t].pc = "generate"
        /\ UNCHANGED <<tester, fn>>
        /\ IF out.raised
           THEN /\ UNCHANGED jobs
                /\ tasks' = [tasks EXCEPT
                      ![t].calls = Append(@,
                          Call("Generator",
                               generate_payload(job, tasks[t].feedback)))]
           ELSE LET j1 == [job EXCEPT !.generated_code = Some(out.data)]
                    j2 == test_begin(j1)
                IN  /\ jobs' = [jobs EXCEPT ![id] = j2]
                    /\ tasks' = [tasks EXCEPT
                          ![t].pc = "test",
                          ![t].calls = Append(@,
                              Call("Tester", test_payload(j2)))]

\* The await of _generate returns: store the code and go on into _test.
_generate(t, resp) ==
    LET id  == tasks[t].job_id
        job == jobs[id]
        out == Outcome(resp, "Generator")
    IN  /\ Idle
        /\ tasks[t].pc = "generate"
        /\ UNCHANGED <<tester, fn>>
        /\ IF out.raised
           THEN /\ jobs' = [jobs EXCEPT
                                ![id] = run_except(job, out.exc, "_generate")]
                /\ tasks' = [tasks EXCEPT ![t] = Returned(@, TRUE)]
           ELSE LET j1 == [job EXCEPT !.generated_code = Some(out.data)]
                    j2 == test_begin(j1)
                IN  /\ jobs' = [jobs EXCEPT ![id] = j2]
                    /\ tasks' = [tasks EXCEPT
                          ![t].pc = "test",
                          ![t].calls = Append(@,
                              Call("Tester", test_payload(j2)))]

\* The await of _test returns: store the score and evaluate it.  Threshold
\* met: COMPLETED and return.  Otherwise the feedback is compiled, ITERATING
\* is set if budget is left, and control goes back to the loop head.
_test(t, resp) ==
    LET id  == tasks[t].job_id
        job == jobs[id]
        out == Outcome(resp, "Tester")
    IN  /\ Idle
        /\ tasks[t].pc = "test"
        /\ UNCHANGED <<tester, fn>>
        /\ IF out.raised
           THEN /\ jobs' = [jobs EXCEPT
                                ![id] = run_except(job, out.exc, "_test")]
                /\ tasks' = [tasks EXCEPT ![t] = Returned(@, TRUE)]
           ELSE LET j1 == [job EXCEPT !.test_result = Some(out.data)]
                IN  IF threshold_met(j1)
                    THEN /\ jobs' = [jobs EXCEPT ![id] = run_completed(j1)]
                         /\ tasks' = [tasks EXCEPT ![t] = Returned(@, FALSE)]
                    ELSE /\ jobs' = [jobs EXCEPT ![id] =
                               IF budget_left(j1) THEN run_iterating(j1)
                               ELSE j1]
                         /\ tasks' = [tasks EXCEPT
                               ![t].pc = "loop",
                               ![t].feedback = _build_feedback(j1),
                               ![t].cycles = @ + 1,
                               ![t].last_score = Some(out.data)]

\* ------------------------------------------------------ gateway endpoints
\* create_job / create_job_json: register a new job and schedule its run.
create_job(pairs, maxit) ==
    LET id == Len(jobs) + 1 IN
    /\ Idle
    /\ id \in JobIds
    /\ Len(tasks) < MaxRuns
    /\ jobs' = Append(jobs, ConversionJob(id, pairs, maxit))
    /\ tasks' = add_task(id)
    /\ UNCHANGED <<tester, fn>>

\* get_job, for any id: the job, or 404; the registry is only read.
get_job ==
    /\ Idle
    /\ UNCHANGED vars

\* list_jobs: the summaries; the registry is only read.
list_jobs ==
    /\ Idle
    /\ UNCHANGED vars

\* Mutant of rerun_job: current_iteration is not reset.
rerun_job_keeps_iteration(id) ==
    /\ Idle
    /\ IF id \notin Registered
       THEN UNCHANGED vars
       ELSE /\ Len(tasks) < MaxRuns
            /\ jobs' = [jobs EXCEPT ![id] =
                          [@ EXCEPT !.status = "pending",
                                    !.analysis = None,
                                    !.generated_code = None,
                                    !.test_result = None,
                                    !.message = [text |-> ""]]]
            /\ tasks' = add_task(id)
            /\ UNCHANGED <<tester, fn>>

\* rerun_job: 404 for an unknown id; otherwise reset the mutable fields and
\* schedule a new run, whatever the job's status is.
rerun_job(id) ==
    /\ Idle
    /\ IF id \notin Registered
       THEN UNCHANGED vars
       ELSE /\ Len(tasks) < MaxRuns
            /\ jobs' = [jobs EXCEPT ![id] =
                          [@ EXCEPT !.status = "pending",
                                    !.analysis = None,
                                    !.generated_code = None,
                                    !.test_result = None,
                                    !.current_iteration = 0,
                                    !.message = [text |-> ""]]]
            /\ tasks' = add_task(id)
            /\ UNCHANGED <<tester, fn>>

\* ==================================================== the Tester service
\* ----------------------------------------------------------- Python strs
\* _snippet(xml_string, max_length=300) and str(actual_xml)[:300]
MaxSnippet == 300

\* xml_diff_report lists diffs[:20]
MaxReported == 20

Min(a, b) == IF a <= b THEN a ELSE b

\* An XML element as ElementTree holds it: a tag and attribute keys with an
\* optional namespace ("{ns}name"), a text with optional surrounding
\* whitespace (core is what strip() leaves; a missing text has core ""),
\* and the children in document order.
QName(ns, name) == [ns |-> ns, name |-> name]

Text(pad, core) == [pad |-> pad, core |-> core]

Element(tag, text, attrib, children) ==
    [tag |-> tag, text |-> text, attrib |-> attrib, children |-> children]

\* What a str holds between its leading and trailing whitespace, by what
\* ET.fromstring makes of it: a tree, a ParseError (not well-formed), or a
\* UnicodeEncodeError (a lone surrogate cannot be encoded for the parser).
\* n is its length in characters.
Document(root, n) == [parse |-> "tree", root |-> Some(root), text |-> "", n |-> n]

Malformed(text, n) == [parse |-> "ParseError", root |-> None, text |-> text, n |-> n]

Unencodable(text, n) ==
    [parse |-> "UnicodeEncodeError", root |-> None, text |-> text, n |-> n]

\* A Python str: `lead` whitespace characters, a body, `trail` whitespace
\* characters, of which the first `upto` characters are kept, followed by
\* "..." when dots is set.
Str(lead, body, trail) ==
    [lead |-> lead, body |-> body, trail |-> trail,
     upto |-> lead + body.n + trail, dots |-> FALSE]

EmptyStr == Str(0, Malformed("", 0), 0)

\* len(s)
len(s) == s.upto + (IF s.dots THEN 3 ELSE 0)

\* s.strip(), of a str that has not been cut
strip(s) == Str(0, s.body, 0)

\* s[:k]
Slice(s, k) == [s EXCEPT !.upto = Min(@, k)]

\* _snippet(xml_string, max_length)
_snippet(xml_string, max_length) ==
    LET text == strip(xml_string)
    IN  IF len(text) <= max_length THEN text
        ELSE [Slice(text, max_length) EXCEPT !.dots = TRUE]

\* ------------------------------------------------------- XML Comparator
\* _strip_namespace(tag)
_strip_namespace(tag) == QName("", tag.name)

\* Mutant of NameOf: names are compared with their namespace.
NameOf_keeps_namespace(tag, strip_ns) == tag

NameOf(tag, strip_ns) == IF strip_ns THEN _strip_namespace(tag) ELSE tag

\* parse_xml(xml_string): the root element, or the exception raised by
\* ET.fromstring(xml_string.strip()).  A str that was cut is not a document.
parse_xml(xml_string) ==
    LET b == strip(xml_string).body
    IN  IF xml_string.dots
           \/ xml_string.upto < xml_string.lead + b.n + xml_string.trail
        THEN [raised |-> TRUE, exc |-> "ParseError", root |-> None]
        ELSE IF b.parse = "tree"
        THEN [raised |-> FALSE, exc |-> "", root |-> b.root]
        ELSE [raised |-> TRUE, exc |-> b.parse, root |-> None]

\* The dict comprehension over e.attrib.items(): stripped keys, and of two
\* keys that strip to the same name the later one wins.
AttribDict(attrib, strip_ns) ==
    LET key(i) == NameOf(attrib[i].key, strip_ns)
        keys   == {key(i) : i \in DOMAIN attrib}
        last(k) == CHOOSE i \in DOMAIN attrib :
                       /\ key(i) = k
                       /\ \A j \in DOMAIN attrib : key(j) = k => j <= i
    IN  [k \in keys |-> attrib[last(k)].value]

RECURSIVE _compare_elements(_, _, _, _)
RECURSIVE CompareChildren(_, _, _, _, _)

\* Mutant of CompareChildren: the children of the second element are taken
\* from the last one backwards.
CompareChildren_backwards(children1, children2, current, strip_ns, i) ==
    IF i > Min(Len(children1), Len(children2)) THEN <<>>
    ELSE _compare_elements(children1[i],
                           children2[Len(children2) + 1 - i],
                           current, strip_ns)
         \o CompareChildren(children1, children2, current, strip_ns, i + 1)

\* The loop over zip(children1, children2), from position i on.
CompareChildren(children1, children2, current, strip_ns, i) ==
    IF i > Min(Len(children1), Len(children2)) THEN <<>>
    ELSE _compare_elements(children1[i], children2[i], current, strip_ns)
         \o CompareChildren(children1, children2, current, strip_ns, i + 1)

\* Mutant of _compare_elements: a text difference is reported at the path
\* of the parent.
_compare_elements_text_at_parent(e1, e2, path, strip_ns) ==
    LET tag1    == NameOf(e1.tag, strip_ns)
        tag2    == NameOf(e2.tag, strip_ns)
        current == Append(path, tag1)
        t1      == e1.text.core
        t2      == e2.text.core
        a1      == AttribDict(e1.attrib, strip_ns)
        a2      == AttribDict(e2.attrib, strip_ns)
        n1      == Len(e1.children)
        n2      == Len(e2.children)
    IN  IF tag1 # tag2
        THEN <<[kind |-> "Tag mismatch", path |-> path,
                tag1 |-> tag1, tag2 |-> tag2]>>
        ELSE (IF t1 # t2
              THEN <<[kind |-> "Text", at |-> path, t1 |-> t1, t2 |-> t2]>>
              ELSE <<>>)
             \o (IF a1 # a2
                 THEN <<[kind |-> "Attributes", at |-> current,
                         a1 |-> a1, a2 |-> a2]>>
                 ELSE <<>>)
             \o (IF n1 # n2
                 THEN <<[kind |-> "Child count", at |-> current,
                         n1 |-> n1, n2 |-> n2]>>
                 ELSE <<>>)
             \o CompareChildren(e1.children, e2.children, current, strip_ns, 1)

\* Mutant of _compare_elements: after a tag mismatch the comparison goes on
\* with the text, the attributes and the children.
_compare_elements_goes_on(e1, e2, path, strip_ns) ==
    LET tag1    == NameOf(e1.tag, strip_ns)
        tag2    == NameOf(e2.tag, strip_ns)
        current == Append(path, tag1)
        t1      == e1.text.core
        t2      == e2.text.core
        a1      == AttribDict(e1.attrib, strip_ns)
        a2      == AttribDict(e2.attrib, strip_ns)
        n1      == Len(e1.children)
        n2      == Len(e2.children)
    IN  (IF tag1 # tag2
         THEN <<[kind |-> "Tag mismatch", path |-> path,
                 tag1 |-> tag1, tag2 |-> tag2]>>
         ELSE <<>>)
        \o (IF t1 # t2
            THEN <<[kind |-> "Text", at |-> current, t1 |-> t1, t2 |-> t2]>>
            ELSE <<>>)
        \o (IF a1 # a2
            THEN <<[kind |-> "Attributes", at |-> current,
                    a1 |-> a1, a2 |-> a2]>>
            ELSE <<>>)
        \o (IF n1 # n2
            THEN <<[kind |-> "Child count", at |-> current,
                    n1 |-> n1, n2 |-> n2]>>
            ELSE <<>>)
        \o CompareChildren(e1.children, e2.children, current, strip_ns, 1)

\* Mutant of _compare_elements: the texts are compared as they stand, with
\* their surrounding whitespace.
_compare_elements_raw_text(e1, e2, path, strip_ns) ==
    LET tag1    == NameOf(e1.tag, strip_ns)
        tag2    == NameOf(e2.tag, strip_ns)
        current == Append(path, tag1)
        t1      == e1.text
        t2      == e2.text
        a1      == AttribDict(e1.attrib, strip_ns)
        a2      == AttribDict(e2.attrib, strip_ns)
        n1      == Len(e1.children)
        n2      == Len(e2.children)
    IN  IF tag1 # tag2
        THEN <<[kind |-> "Tag mismatch", path |-> path,
                tag1 |-> tag1, tag2 |-> tag2]>>
        ELSE (IF t1 # t2
              THEN <<[kind |-> "Text", at |-> current, t1 |-> t1, t2 |-> t2]>>
              ELSE <<>>)
             \o (IF a1 # a2
                 THEN <<[kind |-> "Attributes", at |-> current,
                         a1 |-> a1, a2 |-> a2]>>
                 ELSE <<>>)
             \o (IF n1 # n2
                 THEN <<[kind |-> "Child count", at |-> current,
                         n1 |-> n1, n2 |-> n2]>>
                 ELSE <<>>)
             \o CompareChildren(e1.children, e2.children, current, strip_ns, 1)

\* _compare_elements(e1, e2, path, diffs, strip_ns): the entries it appends
\* to diffs, in order.  A path is the sequence of the tags from the root.
_compare_elements(e1, e2, path, strip_ns) ==
    LET tag1    == NameOf(e1.tag, strip_ns)
        tag2    == NameOf(e2.tag, strip_ns)
        current == Append(path, tag1)
        t1      == e1.text.core
        t2      == e2.text.core
        a1      == AttribDict(e1.attrib, strip_ns)
        a2      == AttribDict(e2.attrib, strip_ns)
        n1      == Len(e1.children)
        n2      == Len(e2.children)
    IN  IF tag1 # tag2
        THEN <<[kind |-> "Tag mismatch", path |-> path,
                tag1 |-> tag1, tag2 |-> tag2]>>
        ELSE (IF t1 # t2
              THEN <<[kind |-> "Text", at |-> current, t1 |-> t1, t2 |-> t2]>>
              ELSE <<>>)
             \o (IF a1 # a2
                 THEN <<[kind |-> "Attributes", at |-> current,
                         a1 |-> a1, a2 |-> a2]>>
                 ELSE <<>>)
             \o (IF n1 # n2
                 THEN <<[kind |-> "Child count", at |-> current,
                         n1 |-> n1, n2 |-> n2]>>
                 ELSE <<>>)
             \o CompareChildren(e1.children, e2.children, current, strip_ns, 1)

\* Mutant of compare_xml: one recorded difference still counts as equal.
compare_xml_tolerant(xml1, xml2, strip_ns) ==
    LET p1 == parse_xml(xml1)
        p2 == parse_xml(xml2)
        failed == IF p1.raised THEN p1 ELSE p2
    IN  IF p1.raised \/ p2.raised
        THEN IF failed.exc = "ParseError"
             THEN [raised |-> FALSE, exc |-> "", is_equal |-> FALSE,
                   diffs |-> <<[kind |-> "XML parse error"]>>]
             ELSE [raised |-> TRUE, exc |-> failed.exc, is_equal |-> FALSE,
                   diffs |-> <<>>]
        ELSE LET diffs == _compare_elements(p1.root[1], p2.root[1], <<>>,
                                            strip_ns)
             IN  [raised |-> FALSE, exc |-> "", is_equal |-> Len(diffs) <= 1,
                  diffs |-> diffs]

\* compare_xml(xml1, xml2, strip_ns): (is_equal, diffs), or the exception
\* that is neither caught here nor an ET.ParseError.
compare_xml(xml1, xml2, strip_ns) ==
    LET p1 == parse_xml(xml1)
        p2 == parse_xml(xml2)
        failed == IF p1.raised THEN p1 ELSE p2
    IN  IF p1.raised \/ p2.raised
        THEN IF failed.exc = "ParseError"
             THEN [raised |-> FALSE, exc |-> "", is_equal |-> FALSE,
                   diffs |-> <<[kind |-> "XML parse error"]>>]
             ELSE [raised |-> TRUE, exc |-> failed.exc, is_equal |-> FALSE,
                   diffs |-> <<>>]
        ELSE LET diffs == _compare_elements(p1.root[1], p2.root[1], <<>>,
                                            strip_ns)
             IN  [raised |-> FALSE, exc |-> "", is_equal |-> Len(diffs) = 0,
                  diffs |-> diffs]

\* Mutant of xml_diff_report: the line of the remaining count is appended
\* from 20 differences on.
xml_diff_report_more_from_twenty(expected_xml, actual_xml) ==
    LET c == compare_xml(expected_xml, actual_xml, TRUE)
        n == Len(c.diffs)
    IN  IF c.is_equal THEN <<[line |-> "XML documents are identical."]>>
        ELSE <<[line |-> "Found difference(s):", count |-> n]>>
             \o [i \in 1..Min(n, MaxReported) |->
                    [line |-> "numbered", number |-> i, d |-> c.diffs[i]]]
             \o (IF n >= MaxReported
                 THEN <<[line |-> "... and more", count |-> n - MaxReported]>>
                 ELSE <<>>)

\* xml_diff_report(expected_xml, actual_xml), where compare_xml returns: the
\* text, one record per line.
xml_diff_report(expected_xml, actual_xml) ==
    LET c == compare_xml(expected_xml, actual_xml, TRUE)
        n == Len(c.diffs)
    IN  IF c.is_equal THEN <<[line |-> "XML documents are identical."]>>
        ELSE <<[line |-> "Found difference(s):", count |-> n]>>
             \o [i \in 1..Min(n, MaxReported) |->
                    [line |-> "numbered", number |-> i, d |-> c.diffs[i]]]
             \o (IF n > MaxReported
                 THEN <<[line |-> "... and more", count |-> n - MaxReported]>>
                 ELSE <<>>)

\* ------------------------------------------------------------ the sandbox
\* SAFE_MODULES
SAFE_MODULES ==
    {"xml", "xml.etree", "xml.etree.ElementTree", "xml.dom",
     "xml.dom.minidom", "xml.sax", "xml.parsers", "xml.parsers.expat",
     "re", "datetime", "collections", "json", "copy", "math", "string",
     "io", "functools", "itertools"}

\* The names of safe_builtins, "__import__" included.
safe_builtins ==
    {"True", "False", "None", "abs", "all", "any", "bool", "bytes", "chr",
     "dict", "dir", "divmod", "enumerate", "filter", "float", "format",
     "frozenset", "getattr", "hasattr", "hash", "hex", "int", "isinstance",
     "issubclass", "iter", "len", "list", "map", "max", "min", "next", "oct",
     "ord", "pow", "print", "range", "repr", "reversed", "round", "set",
     "slice", "sorted", "str", "sum", "tuple", "type", "zip", "ValueError",
     "TypeError", "KeyError", "IndexError", "AttributeError",
     "StopIteration", "RuntimeError", "Exception", "__import__"}

\* What the host gives to whoever holds a module object or a builtin: the
\* module objects _restricted_import returns are the interpreter's own, with
\* all their attributes (io.open and io.FileIO open files; ElementTree.parse
\* and minidom.parse read files; xml.sax.parse also fetches URLs; os runs
\* processes), and so is each builtin.
HostAccess(name) ==
    CASE name = "io"                    -> {"filesystem"}
      [] name = "xml.etree.ElementTree" -> {"filesystem"}
      [] name = "xml.dom.minidom"       -> {"filesystem"}
      [] name = "xml.sax"               -> {"filesystem", "network"}
      [] name = "os"                    -> {"filesystem", "process"}
      [] name = "open"                  -> {"filesystem"}
      [] OTHER                          -> {}

\* The allow-listed modules written in C: they have no __builtins__
\* attribute; every other module's namespace holds the real builtins.
BuiltinModules == {"math", "itertools"}

\* Number of characters of the long texts candidate code produces.
LongText == 100000

\* An exception: its class, whether the class derives from Exception (what
\* `except Exception` catches), str(exc) with the module it names, and the
\* number n of characters str(exc) has at least (msg abbreviates the
\* interpreter's texts).
PyExc(type, derives, msg, name) ==
    [type |-> type, is_exception |-> derives, msg |-> msg, name |-> name,
     n |-> Len(msg)]

\* An exception of class `type` raised with a message of LongText
\* characters: raise type("x" * LongText).
LongExc(type) == [PyExc(type, TRUE, "xxx...", "") EXCEPT !.n = LongText]

NoExc == PyExc("", TRUE, "", "")

\* A value the entry point returns: its type, str(value) (the value itself
\* for a str), and whether str(value) raises (an int of more than 4300
\* digits does).
PyValue(type, s, str_raises) ==
    [type |-> type, s |-> s, str_raises |-> str_raises]

NoneValue == PyValue("NoneType", Str(0, Malformed("None", 4), 0), FALSE)

\* One statement of candidate code:
\*   import <arg>          an import statement
\*   raise <arg>           raise an exception of class <arg>
\*   raise_long <arg>      raise one with a message of LongText characters
\*   call <arg>            call the builtin named <arg>
\*   use <arg>             call a host-access attribute of module <arg>
\*   rebind <arg>          __builtins__['__import__'] =
\*                             <arg>.__builtins__['__import__']
\*   global <arg>          global <arg>; <arg> = True
\*   return <value>
\*   return_if <arg> <value>   if <arg> is a global of the module: return
Stmt(op, arg) == [op |-> op, arg |-> arg, value |-> NoneValue]

Return(value) == [op |-> "return", arg |-> "", value |-> value]

ReturnIf(name, value) == [op |-> "return_if", arg |-> name, value |-> value]

\* _build_sandbox_namespace(): the globals candidate code runs in.  hook is
\* the function bound to __import__, modules the module names bound in the
\* namespace, access what host access the code has obtained so far, globals
\* the other names the code has bound in it.
_build_sandbox_namespace ==
    [hook |-> "_restricted_import", builtins |-> safe_builtins,
     modules |-> {}, access |-> {}, globals |-> {}]

\* _restricted_import(name, ...): refuse by name, or import for real.
_restricted_import(name) ==
    IF name \notin SAFE_MODULES
    THEN [raised |-> TRUE,
          exc |-> PyExc("ImportError", TRUE, "Module is not allowed.", name)]
    ELSE [raised |-> FALSE, exc |-> NoExc]

\* The interpreter's own __import__ (the modules named here all exist).
_real_import(name) == [raised |-> FALSE, exc |-> NoExc]

NameError(name) == PyExc("NameError", TRUE, "name is not defined", name)

\* The effect of one statement on the namespace ns: the namespace after it,
\* and the exception it raises if any.
Exec(stmt, ns) ==
    LET ok(ns2)  == [ns |-> ns2, raised |-> FALSE, exc |-> NoExc]
        fail(e)  == [ns |-> ns, raised |-> TRUE, exc |-> e]
    IN  CASE stmt.op = "import" ->
               LET r == IF ns.hook = "_restricted_import"
                        THEN _restricted_import(stmt.arg)
                        ELSE _real_import(stmt.arg)
               IN  IF r.raised THEN fail(r.exc)
                   ELSE ok([ns EXCEPT !.modules = @ \cup {stmt.arg}])
          [] stmt.op = "raise" ->
               fail(PyExc(stmt.arg, stmt.arg # "BaseException", "boom", ""))
          [] stmt.op = "raise_long" -> fail(LongExc(stmt.arg))
          [] stmt.op = "global" ->
               ok([ns EXCEPT !.globals = @ \cup {stmt.arg}])
          [] stmt.op = "call" ->
               IF stmt.arg \notin ns.builtins THEN fail(NameError(stmt.arg))
               ELSE ok([ns EXCEPT !.access = @ \cup HostAccess(stmt.arg)])
          [] stmt.op = "use" ->
               IF stmt.arg \notin ns.modules THEN fail(NameError(stmt.arg))
               ELSE ok([ns EXCEPT !.access = @ \cup HostAccess(stmt.arg)])
          [] stmt.op = "rebind" ->
               IF stmt.arg \notin ns.modules THEN fail(NameError(stmt.arg))
               ELSE IF stmt.arg \in BuiltinModules
               THEN fail(PyExc("AttributeError", TRUE,
                               "module has no attribute __builtins__",
                               stmt.arg))
               ELSE ok([ns EXCEPT !.hook = "_real_import"])
          [] OTHER -> ok(ns)

\* Run the statements in order up to the first that raises or returns.
RECURSIVE Run(_, _)
Run(stmts, ns) ==
    IF stmts = <<>>
    THEN [ns |-> ns, raised |-> FALSE, exc |-> NoExc, value |-> NoneValue]
    ELSE IF Head(stmts).op = "return"
            \/ (Head(stmts).op = "return_if" /\ Head(stmts).arg \in ns.globals)
    THEN [ns |-> ns, raised |-> FALSE, exc |-> NoExc,
          value |-> Head(stmts).value]
    ELSE LET r == Exec(Head(stmts), ns)
         IN  IF r.raised
             THEN [ns |-> r.ns, raised |-> TRUE, exc |-> r.exc,
                   value |-> NoneValue]
             ELSE Run(Tail(stmts), r.ns)

\* ---------------------------------------------------- the candidate code
\* Candidate source: whether it compiles, its module-level statements, what
\* it binds transform_xml to ("def": a function; "int": a value that is not
\* callable; "None"; "missing": nothing), and the function's body as an
\* if/else over its argument: the first case whose `when` is the argument,
\* otherwise `otherwise`.
Candidate(syntax_ok, top, binding, cases, otherwise) ==
    [syntax_ok |-> syntax_ok, top |-> top, binding |-> binding,
     cases |-> cases, otherwise |-> otherwise]

\* The module object _load_code_module returns: its namespace and the
\* entry point it holds.
Module(ns, code) ==
    [ns |-> ns, transform_xml |-> code.binding, cases |-> code.cases,
     otherwise |-> code.otherwise]

NoModule ==
    [ns |-> _build_sandbox_namespace, transform_xml |-> "missing",
     cases |-> <<>>, otherwise |-> <<>>]

\* TesterAgent._load_code_module(code): compile, then exec in a fresh
\* sandbox namespace; the module, or the exception raised.
_load_code_module(code) ==
    IF ~code.syntax_ok
    THEN [raised |-> TRUE,
          exc |-> PyExc("SyntaxError", TRUE, "invalid syntax", ""),
          module |-> NoModule]
    ELSE LET r == Run(code.top, _build_sandbox_namespace)
         IN  [raised |-> r.raised, exc |-> r.exc,
              module |-> IF r.raised THEN NoModule ELSE Module(r.ns, code)]

\* getattr(module, "transform_xml", None)
getattr_transform_xml(module) ==
    IF module.transform_xml \in {"missing", "None"} THEN None
    ELSE Some(module.transform_xml)

\* The statements the function runs for an argument.
RECURSIVE BodyFor(_, _)
BodyFor(cases, input_xml) ==
    IF cases = <<>> THEN <<>>
    ELSE IF Head(cases).when = input_xml THEN Head(cases).do
    ELSE BodyFor(Tail(cases), input_xml)

\* transform_fn(pair.input_xml): calling a value that is not callable raises
\* TypeError; a function runs its body in the module's namespace.  Names a
\* call imports are local to it; what it did to __builtins__, the globals it
\* bound and the host access it obtained stay.
CallEntry(module, input_xml) ==
    IF module.transform_xml # "def"
    THEN [ns |-> module.ns, raised |-> TRUE,
          exc |-> PyExc("TypeError", TRUE, "object is not callable", ""),
          value |-> NoneValue]
    ELSE LET hit  == \E i \in DOMAIN module.cases :
                         module.cases[i].when = input_xml
             body == IF hit THEN BodyFor(module.cases, input_xml)
                     ELSE module.otherwise
             r    == Run(body, module.ns)
         IN  [r EXCEPT !.ns = [@ EXCEPT !.modules = module.ns.modules]]

\* The diagnostics of a detail, one record per line; the empty text is <<>>.
RuntimeErrorText(exc) ==
    <<[line |-> "Runtime error:", exc |-> exc],
      [line |-> "Traceback (most recent call last):", exc |-> exc]>>

TypeMismatchText(type) ==
    <<[line |-> "transform_xml returned, expected str.", type |-> type]>>

\* The number of characters a text of the Tester has at least: those of its
\* fixed parts and of the exception texts formatted into it (the traceback
\* ends with the exception's class and text).
RECURSIVE MinLength(_)
MinLength(text) ==
    IF text = <<>> THEN 0
    ELSE Len(Head(text).line)
         + (IF "exc" \in DOMAIN Head(text) THEN Head(text).exc.n ELSE 0)
         + MinLength(Tail(text))

\* Mutant of _test_single_pair: the Comparator's verdict is ignored and a
\* str result always passes.
_test_single_pair_trusts_str(module, pair) ==
    LET r == CallEntry(module, pair.input_xml)
        expected == _snippet(pair.output_xml, MaxSnippet)
    IN  IF r.raised
        THEN [escaped |-> ~r.exc.is_exception, exc |-> r.exc, ns |-> r.ns,
              compared |-> FALSE,
              detail |-> TestDetail(pair.pair_id, FALSE, expected, EmptyStr,
                                    RuntimeErrorText(r.exc))]
        ELSE IF r.value.type # "str"
        THEN [escaped |-> r.value.str_raises,
              exc |-> IF r.value.str_raises
                      THEN PyExc("ValueError", TRUE, "str() failed", "")
                      ELSE NoExc,
              ns |-> r.ns, compared |-> FALSE,
              detail |-> TestDetail(pair.pair_id, FALSE, expected,
                                    Slice(r.value.s, MaxSnippet),
                                    TypeMismatchText(r.value.type))]
        ELSE [escaped |-> FALSE, exc |-> NoExc, ns |-> r.ns,
              compared |-> FALSE,
              detail |-> TestDetail(pair.pair_id, TRUE, expected,
                                    _snippet(r.value.s, MaxSnippet), <<>>)]

\* TesterAgent._test_single_pair(transform_fn, pair): the detail, or the
\* exception that leaves it (escaped); ns is the module's namespace after
\* the call, compared whether the Comparator was invoked.
_test_single_pair(module, pair) ==
    LET r == CallEntry(module, pair.input_xml)
        expected == _snippet(pair.output_xml, MaxSnippet)
    IN  IF r.raised
        THEN [escaped |-> ~r.exc.is_exception, exc |-> r.exc, ns |-> r.ns,
              compared |-> FALSE,
              detail |-> TestDetail(pair.pair_id, FALSE, expected, EmptyStr,
                                    RuntimeErrorText(r.exc))]
        ELSE IF r.value.type # "str"
        THEN [escaped |-> r.value.str_raises,
              exc |-> IF r.value.str_raises
                      THEN PyExc("ValueError", TRUE, "str() failed", "")
                      ELSE NoExc,
              ns |-> r.ns, compared |-> FALSE,
              detail |-> TestDetail(pair.pair_id, FALSE, expected,
                                    Slice(r.value.s, MaxSnippet),
                                    TypeMismatchText(r.value.type))]
        ELSE LET c == compare_xml(pair.output_xml, r.value.s, TRUE)
             IN  [escaped |-> c.raised,
                  exc |-> IF c.raised THEN PyExc(c.exc, TRUE, "", "")
                          ELSE NoExc,
                  ns |-> r.ns, compared |-> TRUE,
                  detail |->
                      TestDetail(pair.pair_id, c.is_equal, expected,
                                 _snippet(r.value.s, MaxSnippet),
                                 IF c.is_equal THEN <<>>
                                 ELSE xml_diff_report(pair.output_xml,
                                                      r.value.s))]

\* round(passed / total, 4), in units of 1/10000: the nearest integer to
\* 10000 * passed / total, a tie going to the even one.
Round4(passed, total) ==
    LET q == (10000 * passed) \div total
        r == (10000 * passed) % total
    IN  IF 2 * r > total \/ (2 * r = total /\ q % 2 = 1) THEN q + 1 ELSE q

\* ------------------------------------------------- TesterAgent.test_code
\* Number of pairs of a Test call.
MaxPairs == 3

\* The documents of the pairs: <Root><Code><Value>v</Value></Code></Root>,
\* of n characters.
ValueDoc(v, n) ==
    Document(Element(QName("", "Root"), Text(TRUE, ""), <<>>,
                 <<Element(QName("", "Code"), Text(TRUE, ""), <<>>,
                       <<Element(QName("", "Value"), Text(FALSE, v),
                                 <<>>, <<>>)>>)>>), n)

\* An XmlPair with its documents.
XmlPairOf(id, input, output) ==
    [pair_id |-> id, input_xml |-> input, output_xml |-> output]

\* Two pairs: a short one, and one whose documents are longer than a
\* snippet and padded with whitespace.
PairA == XmlPairOf("A", Str(0, ValueDoc("a", 60), 0),
                        Str(0, ValueDoc("5", 60), 0))

PairB == XmlPairOf("B", Str(0, ValueDoc("b", 400), 1),
                        Str(2, ValueDoc("7", 400), 1))

RECURSIVE SeqsUpTo(_, _)
SeqsUpTo(S, n) ==
    IF n = 0 THEN {<<>>}
    ELSE LET shorter == SeqsUpTo(S, n - 1)
         IN  shorter \cup {Append(s, x) : s \in shorter, x \in S}

\* The pair lists test_code is called with (the endpoint refuses the empty
\* list, test_code itself does not).
TestPairLists == SeqsUpTo({PairA, PairB}, MaxPairs)

\* What a candidate may return.
StrValue(s) == PyValue("str", s, FALSE)

ReturnValues ==
    {StrValue(PairA.output_xml),
     StrValue(Str(1, ValueDoc("7", 400), 3)),
     StrValue(Str(0, ValueDoc("05", 61), 0)),
     StrValue(Str(0, Malformed("not xml", 7), 0)),
     StrValue(Str(0, Unencodable("<a>\\ud800</a>", 8), 0)),
     PyValue("list", Str(0, Malformed("['zzz...']", 404), 0), FALSE),
     PyValue("int", Str(0, Malformed("10**5000", 5001), 0), TRUE),
     NoneValue}

\* Bodies of the entry point.
CallBodies ==
    {<<Return(v)>> : v \in ReturnValues}
    \cup {<<Stmt("raise", "ValueError")>>,
          <<Stmt("raise_long", "ValueError")>>,
          <<Stmt("raise", "BaseException")>>,
          <<Stmt("import", "os")>>,
          <<Stmt("import", "re"), Return(StrValue(PairA.output_xml))>>,
          <<ReturnIf("seen", StrValue(Str(0, ValueDoc("05", 61), 0))),
            Stmt("global", "seen"), Return(StrValue(PairA.output_xml))>>}

\* Module-level statements.
TopBodies ==
    {<<>>,
     <<Stmt("import", "re")>>,
     <<Stmt("import", "os")>>,
     <<Stmt("raise", "ValueError")>>,
     <<Stmt("raise_long", "ValueError")>>,
     <<Stmt("raise", "BaseException")>>,
     <<Stmt("call", "open")>>,
     <<Stmt("import", "io"), Stmt("use", "io")>>,
     <<Stmt("import", "io"), Stmt("rebind", "io"), Stmt("import", "os"),
       Stmt("use", "os")>>,
     <<Stmt("import", "math"), Stmt("rebind", "math")>>}

\* The candidate sources test_code is called with.
Candidates ==
    {Candidate(FALSE, <<>>, "def", <<>>, <<>>)}
    \cup {Candidate(TRUE, top, binding, <<>>, <<>>) :
             top \in TopBodies, binding \in {"None", "int", "missing"}}
    \cup {Candidate(TRUE, top, "def",
                    <<[when |-> PairA.input_xml, do |-> a]>>, b) :
             top \in TopBodies, a \in CallBodies, b \in CallBodies}

\* One call of test_code(code, xml_pairs).  pc is where the call stands;
\* module, i (the pair the loop is at), details and passed_count are its
\* locals; result is the TestResult it returned, exc the exception that left
\* it; invoked and compared list the pairs the entry point and the
\* Comparator were invoked for.
TestCall(code, xml_pairs) ==
    [pc |-> "called", code |-> code, xml_pairs |-> xml_pairs,
     module |-> NoModule, i |-> 0, details |-> <<>>, passed_count |-> 0,
     result |-> None, exc |-> None, invoked |-> <<>>, compared |-> <<>>]

\* The Tester as the gateway sees it: no call is modelled inside.
TesterIdle ==
    [TestCall(Candidate(TRUE, <<>>, "missing", <<>>, <<>>), <<>>)
         EXCEPT !.pc = "idle"]

\* The whole-run failure results of test_code.
WholeRunFailure(xml_pairs, text, exc) ==
    TestResult(Len(xml_pairs), 0, 0, <<>>, <<[line |-> text, exc |-> exc]>>)

\* Mutant of details_append: the new detail goes to the front.
details_prepend(details, detail) == <<detail>> \o details

\* details.append(detail)
details_append(details, detail) == Append(details, detail)

\* Mutant of test_code_result: the accuracy is cut, not rounded.
test_code_result_truncates(xml_pairs, details, passed_count) ==
    LET total == Len(xml_pairs)
    IN  TestResult(total, passed_count,
                   IF total > 0 THEN (10000 * passed_count) \div total ELSE 0,
                   details, <<>>)

\* The TestResult test_code returns after the loop.
test_code_result(xml_pairs, details, passed_count) ==
    LET total == Len(xml_pairs)
    IN  TestResult(total, passed_count,
                   IF total > 0 THEN Round4(passed_count, total) ELSE 0,
                   details, <<>>)

\* test_code, step 1: load the code; a SyntaxError or another Exception
\* ends the call with a whole-run failure, any other exception leaves it.
test_code_load ==
    LET r == _load_code_module(tester.code)
    IN  /\ tester.pc = "called"
        /\ tester' =
             IF ~r.raised
             THEN [tester EXCEPT !.pc = "loaded", !.module = r.module]
             ELSE IF r.exc.type = "SyntaxError"
             THEN [tester EXCEPT !.pc = "returned", !.result =
                      Some(WholeRunFailure(tester.xml_pairs,
                               "Syntax error in generated code:", r.exc))]
             ELSE IF r.exc.is_exception
             THEN [tester EXCEPT !.pc = "returned", !.result =
                      Some(WholeRunFailure(tester.xml_pairs,
                               "Failed to load generated code:", r.exc))]
             ELSE [tester EXCEPT !.pc = "raised", !.exc = Some(r.exc)]
        /\ UNCHANGED <<jobs, tasks, fn>>

\* test_code, the entry-point check.
test_code_entry_point ==
    /\ tester.pc = "loaded"
    /\ tester' =
         IF getattr_transform_xml(tester.module) = None
         THEN [tester EXCEPT !.pc = "returned", !.result =
                  Some(WholeRunFailure(tester.xml_pairs,
                      "Generated code does not define a 'transform_xml' function.",
                      NoExc))]
         ELSE [tester EXCEPT !.pc = "pairs", !.i = 1]
    /\ UNCHANGED <<jobs, tasks, fn>>

\* test_code, one turn of the loop over xml_pairs.
test_code_pair ==
    /\ tester.pc = "pairs"
    /\ tester.i <= Len(tester.xml_pairs)
    /\ LET pair == tester.xml_pairs[tester.i]
           r    == _test_single_pair(tester.module, pair)
           seen == [tester EXCEPT
                       !.invoked = Append(@, pair.pair_id),
                       !.compared = IF r.compared
                                    THEN Append(@, pair.pair_id) ELSE @,
                       !.module.ns = r.ns]
       IN  tester' =
             IF r.escaped
             THEN [seen EXCEPT !.pc = "raised", !.exc = Some(r.exc)]
             ELSE [seen EXCEPT
                      !.details = details_append(@, r.detail),
                      !.passed_count = IF r.detail.passed THEN @ + 1 ELSE @,
                      !.i = @ + 1]
    /\ UNCHANGED <<jobs, tasks, fn>>

\* test_code, after the loop: the result.
test_code_return ==
    /\ tester.pc = "pairs"
    /\ tester.i > Len(tester.xml_pairs)
    /\ tester' = [tester EXCEPT !.pc = "returned", !.result =
                     Some(test_code_result(tester.xml_pairs, tester.details,
                                           tester.passed_count))]
    /\ UNCHANGED <<jobs, tasks, fn>>

\* ---------------------------------------------- the functions without state
\* One application of a function to its arguments: pc is "called" until the
\* function has returned ("returned", out holds what it returned) or raised
\* ("raised", out holds the exception).
Applied(name, args) ==
    [name |-> name, args |-> args, pc |-> "called", out |-> None]

\* No function is being applied.
NotApplied == [Applied("none", <<>>) EXCEPT !.pc = "idle"]

\* ---------------------------------------- the Comparator's arguments
Attr(key, value) == [key |-> key, value |-> value]

Leaf(name, core) == Element(QName("", name), Text(FALSE, core), <<>>, <<>>)

\* <a k=".." j="..">text<b>..</b>..</a>, of n characters
DocA(text, attrib, children, n) ==
    Document(Element(QName("", "a"), text, attrib, children), n)

\* Number of children of the wide documents: two more than a report lists.
WideChildren == MaxReported + 2

\* <r><c>1</c><c>2</c>...</r> with WideChildren children, the text of the
\* first k of them prefixed with "x".
Wide(k) ==
    Document(Element(QName("", "r"), Text(FALSE, ""), <<>>,
                 [i \in 1..WideChildren |->
                     Leaf("c", IF i <= k THEN "x" \o ToString(i)
                               ELSE ToString(i))]),
             7 + 8 * 9 + 9 * (WideChildren - 9) + k)

\* The strs compare_xml and xml_diff_report are applied to.
ComparedStrs ==
    {\* <a><b>1</b></a>
     Str(0, DocA(Text(FALSE, ""), <<>>, <<Leaf("b", "1")>>, 15), 0),
     \* <a xmlns:x="u"><x:b>1</x:b></a>
     Str(0, DocA(Text(FALSE, ""), <<>>,
                 <<Element(QName("u", "b"), Text(FALSE, "1"), <<>>, <<>>)>>,
                 31), 0),
     \* the first one with whitespace around the document and the text
     Str(1, DocA(Text(TRUE, ""), <<>>,
                 <<Element(QName("", "b"), Text(TRUE, "1"), <<>>, <<>>)>>,
                 19), 2),
     \* <a><b>2</b></a>
     Str(0, DocA(Text(FALSE, ""), <<>>, <<Leaf("b", "2")>>, 15), 0),
     \* <a><c>1</c></a>
     Str(0, DocA(Text(FALSE, ""), <<>>, <<Leaf("c", "1")>>, 15), 0),
     \* <a><c k="1">2<b>1</b></c></a>
     Str(0, DocA(Text(FALSE, ""), <<>>,
                 <<Element(QName("", "c"), Text(FALSE, "2"),
                           <<Attr(QName("", "k"), "1")>>,
                           <<Leaf("b", "1")>>)>>, 29), 0),
     \* <a k="1" j="2"><b>1</b></a>
     Str(0, DocA(Text(FALSE, ""),
                 <<Attr(QName("", "k"), "1"), Attr(QName("", "j"), "2")>>,
                 <<Leaf("b", "1")>>, 27), 0),
     \* <a j="2" k="1"><b>1</b></a>
     Str(0, DocA(Text(FALSE, ""),
                 <<Attr(QName("", "j"), "2"), Attr(QName("", "k"), "1")>>,
                 <<Leaf("b", "1")>>, 27), 0),
     \* <a xmlns:x="u" x:k="1" j="2"><b>1</b></a>
     Str(0, DocA(Text(FALSE, ""),
                 <<Attr(QName("u", "k"), "1"), Attr(QName("", "j"), "2")>>,
                 <<Leaf("b", "1")>>, 41), 0),
     \* <a xmlns:x="u" k="2" x:k="1"><b>1</b></a>
     Str(0, DocA(Text(FALSE, ""),
                 <<Attr(QName("", "k"), "2"), Attr(QName("u", "k"), "1")>>,
                 <<Leaf("b", "1")>>, 41), 0),
     \* <a k="1"><b>1</b></a>
     Str(0, DocA(Text(FALSE, ""), <<Attr(QName("", "k"), "1")>>,
                 <<Leaf("b", "1")>>, 21), 0),
     \* <a k="3" j="4"><b>1</b></a>
     Str(0, DocA(Text(FALSE, ""),
                 <<Attr(QName("", "k"), "3"), Attr(QName("", "j"), "4")>>,
                 <<Leaf("b", "1")>>, 27), 0),
     \* <a k="3" j="4">t<b>2</b><c/></a>
     Str(0, DocA(Text(FALSE, "t"),
                 <<Attr(QName("", "k"), "3"), Attr(QName("", "j"), "4")>>,
                 <<Leaf("b", "2"), Leaf("c", "")>>, 32), 0),
     \* <a><c/><b>2</b></a>
     Str(0, DocA(Text(FALSE, ""), <<>>,
                 <<Leaf("c", ""), Leaf("b", "2")>>, 19), 0),
     \* <a><b>2</b><c/></a>
     Str(0, DocA(Text(FALSE, ""), <<>>,
                 <<Leaf("b", "2"), Leaf("c", "")>>, 19), 0),
     \* <a><b>2</b><c/><b>1</b></a>
     Str(0, DocA(Text(FALSE, ""), <<>>,
                 <<Leaf("b", "2"), Leaf("c", ""), Leaf("b", "1")>>, 27), 0),
     \* <z k="9">t<b>2</b><c/></z>
     Str(0, Document(Element(QName("", "z"), Text(FALSE, "t"),
                             <<Attr(QName("", "k"), "9")>>,
                             <<Leaf("b", "2"), Leaf("c", "")>>), 26), 0),
     Str(0, Wide(0), 0),
     Str(0, Wide(MaxReported), 0),
     Str(0, Wide(MaxReported + 1), 0),
     Str(0, Wide(MaxReported + 2), 0),
     Str(0, Malformed("<a><b>1</a>", 11), 0),
     Str(0, Unencodable("<a>\\ud800</a>", 8), 0),
     EmptyStr}

\* The elements of a tree.
RECURSIVE Descendants(_)
Descendants(e) ==
    {e} \cup UNION {Descendants(e.children[i]) : i \in DOMAIN e.children}

\* The elements _compare_elements is applied to: those of the documents
\* above, the wide ones apart.
ComparedElements ==
    UNION {Descendants(s.body.root[1]) :
              s \in {x \in ComparedStrs :
                        /\ x.body.parse = "tree"
                        /\ Len(x.body.root[1].children) < WideChildren}}

\* The paths _compare_elements is applied at.
ComparedPaths == {<<>>, <<QName("", "a")>>}

\* compare_xml(xml1, xml2, strip_ns) is applied.
compare_xml_call ==
    /\ fn.name = "compare_xml"
    /\ fn.pc = "called"
    /\ LET c == compare_xml(fn.args.xml1, fn.args.xml2, fn.args.strip_ns)
       IN  fn' = IF c.raised
                 THEN [fn EXCEPT !.pc = "raised", !.out = Some(c.exc)]
                 ELSE [fn EXCEPT !.pc = "returned",
                          !.out = Some([is_equal |-> c.is_equal,
                                        diffs |-> c.diffs])]
    /\ UNCHANGED <<jobs, tasks, tester>>

\* xml_diff_report(expected_xml, actual_xml) is applied: what compare_xml
\* raises leaves it.
xml_diff_report_call ==
    /\ fn.name = "xml_diff_report"
    /\ fn.pc = "called"
    /\ LET c == compare_xml(fn.args.xml1, fn.args.xml2, TRUE)
       IN  fn' = IF c.raised
                 THEN [fn EXCEPT !.pc = "raised", !.out = Some(c.exc)]
                 ELSE [fn EXCEPT !.pc = "returned",
                          !.out = Some(xml_diff_report(fn.args.xml1,
                                                       fn.args.xml2))]
    /\ UNCHANGED <<jobs, tasks, tester>>

\* _compare_elements(e1, e2, path, diffs, strip_ns) is applied with an empty
\* diffs.
_compare_elements_call ==
    /\ fn.name = "_compare_elements"
    /\ fn.pc = "called"
    /\ fn' = [fn EXCEPT !.pc = "returned",
                 !.out = Some(_compare_elements(fn.args.e1, fn.args.e2,
                                                fn.args.path,
                                                fn.args.strip_ns))]
    /\ UNCHANGED <<jobs, tasks, tester>>

\* ----------------------------------- the Feedback Compiler's arguments
\* Details a Tester response may hold: a passed one, failed ones with a
\* diagnostic, with excerpts only, with an expected excerpt only and with
\* no text at all, and a passed one that carries texts.
FeedbackDetails ==
    {TestDetail("p", TRUE, "out_p", "out_p", ""),
     TestDetail("q", FALSE, "out_q", "act_q", "diff_q"),
     TestDetail("r", FALSE, "out_r", "act_r", ""),
     TestDetail("s", FALSE, "out_s", "", ""),
     TestDetail("t", FALSE, "", "", ""),
     TestDetail("u", TRUE, "out_u", "act_u", "diff_u")}

\* Number of details of these responses.
MaxDetails == 3

\* The score over a list of details, with a top-level error text.
ScoreOver(details, err) ==
    LET total  == Len(details)
        passed == Cardinality({i \in DOMAIN details : details[i].passed})
    IN  TestResult(total, passed,
                   IF total > 0 THEN Round4(passed, total) ELSE 0,
                   details, err)

\* 18 of 20 pairs passing: just below the default threshold.
BelowThreshold ==
    ScoreOver([i \in 1..20 |->
                  IF i < 19 THEN TestDetail(ToString(i), TRUE, "out", "out", "")
                  ELSE TestDetail(ToString(i), FALSE, "out", "act", "diff")],
              "")

\* The scores _build_feedback is applied to.
FeedbackScores ==
    {ScoreOver(details, err) :
        details \in SeqsUpTo(FeedbackDetails, MaxDetails),
        err \in {"", "Failed to load generated code: ..."}}
    \cup TestResults \cup {BelowThreshold}

\* The jobs _build_feedback is applied to: one without a score, and one for
\* each score.
FeedbackJobs ==
    {ConversionJob(1, <<XmlPair("p1"), XmlPair("p2")>>, MaxIter)}
    \cup {[ConversionJob(1, <<XmlPair("p1"), XmlPair("p2")>>, MaxIter)
              EXCEPT !.test_result = Some(r)] : r \in FeedbackScores}

\* _build_feedback(job) is applied.
_build_feedback_call ==
    /\ fn.name = "_build_feedback"
    /\ fn.pc = "called"
    /\ fn' = [fn EXCEPT !.pc = "returned",
                 !.out = Some(_build_feedback(fn.args.job))]
    /\ UNCHANGED <<jobs, tasks, tester>>

\* --------------------------------------------------------- specification
Init ==
    /\ jobs = <<>>
    /\ tasks = <<>>
    /\ tester = TesterIdle
    /\ fn = NotApplied

Next ==
    \/ \E pairs \in PairLists, maxit \in IterationBudgets : create_job(pairs, maxit)
    \/ get_job
    \/ list_jobs
    \/ \E id \in RequestIds : rerun_job(id)
    \/ \E t \in DOMAIN tasks : _run_orchestration(t)
    \/ \E t \in DOMAIN tasks : run_loop(t)
    \/ \E t \in DOMAIN tasks, resp \in AnalyzerResponses : _analyze(t, resp)
    \/ \E t \in DOMAIN tasks, resp \in GeneratorResponses : _generate(t, resp)
    \/ \E t \in DOMAIN tasks, resp \in TesterResponses : _test(t, resp)

Spec == Init /\ [][Next]_vars

\* The Tester service on its own: one call of test_code on any candidate and
\* any pair list.
TesterInit ==
    /\ jobs = <<>>
    /\ tasks = <<>>
    /\ tester \in {TestCall(code, xml_pairs) :
                      code \in Candidates, xml_pairs \in TestPairLists}
    /\ fn = NotApplied

TesterNext ==
    \/ test_code_load
    \/ test_code_entry_point
    \/ test_code_pair
    \/ test_code_return

TesterSpec == TesterInit /\ [][TesterNext]_vars


\* The Comparator on its own: one application of compare_xml, of
\* xml_diff_report or of _compare_elements.
ComparatorInit ==
    /\ jobs = <<>>
    /\ tasks = <<>>
    /\ tester = TesterIdle
    /\ fn \in {Applied("compare_xml",
                       [xml1 |-> x, xml2 |-> y, strip_ns |-> b]) :
                  x \in ComparedStrs, y \in ComparedStrs, b \in BOOLEAN}
          \cup {Applied("xml_diff_report", [xml1 |-> x, xml2 |-> y]) :
                   x \in ComparedStrs, y \in ComparedStrs}
          \cup {Applied("_compare_elements",
                        [e1 |-> x, e2 |-> y, path |-> p, strip_ns |-> b]) :
                   x \in ComparedElements, y \in ComparedElements,
                   p \in ComparedPaths, b \in BOOLEAN}

ComparatorNext ==
    \/ compare_xml_call
    \/ xml_diff_report_call
    \/ _compare_elements_call

ComparatorSpec == ComparatorInit /\ [][ComparatorNext]_vars


\* The Feedback Compiler on its own: one application of _build_feedback.
FeedbackInit ==
    /\ jobs = <<>>
    /\ tasks = <<>>
    /\ tester = TesterIdle
    /\ fn \in {Applied("_build_feedback", [job |-> j]) : j \in FeedbackJobs}

FeedbackNext == _build_feedback_call

FeedbackSpec == FeedbackInit /\ [][FeedbackNext]_vars

\* ================================================================ claims
\* Helpers of the properties below.

JobOf(t) == tasks[t].job_id

\* Task t takes the step.
Stepped(t) == tasks'[t].pc # tasks[t].pc

\* Task t returns in the step.
Returns(t) == tasks[t].pc # "done" /\ tasks'[t].pc = "done"

\* The step schedules a task (create_job or rerun_job did).
Scheduled == Len(tasks') = Len(tasks) + 1

\* A task that has returned stays so and calls nothing.
DoneIsFinal ==
    \A t \in DOMAIN tasks :
        tasks[t].pc = "done" => tasks'[t] = tasks[t]

ExhaustedText == "Completed (max iterations reached)."

\* The job holds a score at or above its threshold.
ScoreMeets(job) ==
    /\ job.test_result # None
    /\ job.test_result[1].accuracy >= job.accuracy_threshold

\* C1. A run that is alone on its job ends in one of three ways only: a
\* collaborator call failed, a score met the threshold, or the budget is
\* used up; in the last case (no call failed, every score was below the
\* threshold) it has performed exactly max_iterations full cycles, the
\* status becomes COMPLETED and the message says that the maximum of
\* iterations was reached.
C1_ExhaustedRunCompletes ==
    [][\A t \in DOMAIN tasks :
          (tasks[t].alone /\ Returns(t)) =>
             \/ tasks'[t].raised
             \/ /\ tasks[t].pc = "test"
                /\ ScoreMeets(jobs'[JobOf(t)])
             \/ /\ tasks[t].pc = "loop"
                /\ tasks[t].cycles = jobs[JobOf(t)].max_iterations
                /\ jobs'[JobOf(t)].current_iteration
                      = jobs[JobOf(t)].max_iterations
                /\ jobs'[JobOf(t)].status = "completed"
                /\ jobs'[JobOf(t)].message.text = ExhaustedText]_vars

\* Witness of C1: the only task ever scheduled has returned without a
\* failure after two or more cycles, its job is COMPLETED below the
\* threshold with the max-iterations message.
C1_Witness ==
    /\ Len(tasks) = 1
    /\ tasks[1].pc = "done" /\ ~tasks[1].raised
    /\ jobs[1].status = "completed"
    /\ jobs[1].message.text = ExhaustedText
    /\ jobs[1].current_iteration = jobs[1].max_iterations
    /\ jobs[1].max_iterations >= 2
    /\ ~ScoreMeets(jobs[1])

\* C2. When the Test call of a task returns, the task either fails, or
\* returns with status COMPLETED and a stored score at or above the
\* threshold, or goes back to the loop head having received a score strictly
\* below the threshold; and a task that has returned never calls again.  So
\* a score >= threshold (equality included) ends the run at once.
C2_EarlyExit ==
    [][/\ \A t \in DOMAIN tasks :
             (tasks[t].pc = "test" /\ Stepped(t)) =>
                \/ tasks'[t].pc = "done" /\ tasks'[t].raised
                \/ /\ tasks'[t].pc = "done" /\ ~tasks'[t].raised
                   /\ jobs'[JobOf(t)].status = "completed"
                   /\ ScoreMeets(jobs'[JobOf(t)])
                \/ /\ tasks'[t].pc = "loop"
                   /\ tasks'[t].last_score # None
                   /\ tasks'[t].last_score[1].accuracy
                         < jobs[JobOf(t)].accuracy_threshold
       /\ DoneIsFinal]_vars

\* Witness of C2: a job COMPLETED by the early return with a score equal to
\* the threshold while budget remains, its task returned.
C2_Witness ==
    \E t \in DOMAIN tasks :
        /\ tasks[t].pc = "done" /\ ~tasks[t].raised
        /\ jobs[JobOf(t)].status = "completed"
        /\ jobs[JobOf(t)].message.text = "Completed with accuracy"
        /\ jobs[JobOf(t)].test_result[1].accuracy
              = jobs[JobOf(t)].accuracy_threshold
        /\ jobs[JobOf(t)].current_iteration < jobs[JobOf(t)].max_iterations

\* C3. The step in which a collaborator call of a task fails is the task's
\* last: the task returns (it does not raise to its caller and issues no
\* further call) and the job's status becomes FAILED with the error message.
C3_FailureAborts ==
    [][/\ \A t \in DOMAIN tasks :
             (~tasks[t].raised /\ tasks'[t].raised) =>
                /\ tasks[t].pc \in {"analyze", "generate", "test"}
                /\ tasks'[t].pc = "done"
                /\ tasks'[t].calls = <<>>
                /\ jobs'[JobOf(t)].status = "failed"
                /\ jobs'[JobOf(t)].message.text = "Error:"
       /\ \A t \in DOMAIN tasks :
             tasks[t].pc = "done" =>
                tasks'[t].pc = "done" /\ tasks'[t].calls = <<>>]_vars

\* Witness of C3: a call failed in the second iteration, the job is FAILED.
C3_Witness ==
    \E t \in DOMAIN tasks :
        /\ tasks[t].pc = "done" /\ tasks[t].raised
        /\ jobs[JobOf(t)].status = "failed"
        /\ jobs[JobOf(t)].current_iteration = 2
        /\ jobs[JobOf(t)].test_result # None
        /\ jobs[JobOf(t)].message.text = "Error:"
        /\ jobs[JobOf(t)].message.traceback = <<"run", "_generate">>

\* C4. A step of a task in which no call fails never writes FAILED; a task
\* that returns without a failed call leaves the job COMPLETED; and a score
\* below the threshold (a whole-run load failure with accuracy 0 included)
\* takes the task to the loop head, from where it starts the next iteration
\* if budget remains and otherwise returns with COMPLETED.
C4_LowAccuracyNeverFails ==
    [][\A t \in DOMAIN tasks :
          /\ (Stepped(t) /\ ~tasks'[t].raised
                 /\ jobs'[JobOf(t)].status = "failed")
                => jobs[JobOf(t)].status = "failed"
          /\ (Returns(t) /\ ~tasks'[t].raised)
                => jobs'[JobOf(t)].status = "completed"
          /\ (tasks[t].pc = "test" /\ Stepped(t) /\ ~tasks'[t].raised
                 /\ ~ScoreMeets(jobs'[JobOf(t)]))
                => tasks'[t].pc = "loop"
          /\ (tasks[t].pc = "loop" /\ Stepped(t))
                => IF jobs[JobOf(t)].current_iteration
                         < jobs[JobOf(t)].max_iterations
                   THEN /\ tasks'[t].pc = "analyze"
                        /\ jobs'[JobOf(t)].status = "analyzing"
                   ELSE /\ tasks'[t].pc = "done"
                        /\ jobs'[JobOf(t)].status = "completed"]_vars

\* Witness of C4: a job whose last score is a whole-run load failure with
\* accuracy 0 has used up its budget and is COMPLETED.
C4_Witness ==
    \E t \in DOMAIN tasks :
        /\ tasks[t].pc = "done" /\ ~tasks[t].raised
        /\ jobs[JobOf(t)].status = "completed"
        /\ jobs[JobOf(t)].test_result # None
        /\ jobs[JobOf(t)].test_result[1].accuracy = 0
        /\ jobs[JobOf(t)].test_result[1].error_message # ""
        /\ jobs[JobOf(t)].current_iteration >= 2

\* The step is a re-run request on job id: it schedules a task for a job
\* that exists already.
RerunOf(id) ==
    /\ Scheduled
    /\ Len(jobs') = Len(jobs)
    /\ tasks'[Len(tasks')].job_id = id

\* C5 (as claimed). Once a job is COMPLETED or FAILED, its fields change
\* only in a re-run request, which resets it to PENDING.
C5_TerminalIsFrozen ==
    [][\A id \in DOMAIN jobs :
          (jobs[id].status \in Terminal /\ jobs'[id] # jobs[id])
             => RerunOf(id) /\ jobs'[id].status = "pending"]_vars

\* C6 (as claimed). While a job's status is ANALYZING, GENERATING, TESTING
\* or ITERATING, exactly one task runs on it, a change of its fields is a
\* step of that task, and no re-run request resets it or schedules a second
\* task.
C6_SingleWriter ==
    [][\A id \in DOMAIN jobs :
          jobs[id].status \in InFlight =>
             /\ Cardinality(Running(id)) = 1
             /\ ~RerunOf(id)
             /\ jobs'[id] # jobs[id]
                   => \E t \in Running(id) : Stepped(t)]_vars

\* C7. A step that schedules a task for an existing job (a re-run request)
\* names a registered id, sets status PENDING, clears analysis,
\* generated_code and test_result, sets current_iteration to 0, leaves
\* job_id, created_at, xml_pairs, max_iterations and accuracy_threshold as
\* they were, changes no other job, and leaves the new task scheduled, not
\* yet started; nothing is ever scheduled for an id that is not registered.
C7_RerunResets ==
    [][Scheduled =>
          LET id == tasks'[Len(tasks')].job_id IN
          /\ id \in DOMAIN jobs'
          /\ tasks'[Len(tasks')].pc = "scheduled"
          /\ Len(jobs') = Len(jobs) =>
                /\ id \in DOMAIN jobs
                /\ jobs'[id].status = "pending"
                /\ jobs'[id].analysis = None
                /\ jobs'[id].generated_code = None
                /\ jobs'[id].test_result = None
                /\ jobs'[id].current_iteration = 0
                /\ jobs'[id].job_id = jobs[id].job_id
                /\ jobs'[id].created_at = jobs[id].created_at
                /\ jobs'[id].xml_pairs = jobs[id].xml_pairs
                /\ jobs'[id].max_iterations = jobs[id].max_iterations
                /\ jobs'[id].accuracy_threshold = jobs[id].accuracy_threshold
                /\ \A other \in DOMAIN jobs \ {id} :
                      jobs'[other] = jobs[other]]_vars

\* Witness of C7: the first run of a job has returned, a re-run request has
\* reset the job, and the new task has not started yet.
C7_Witness ==
    /\ Len(tasks) = 2
    /\ tasks[1].job_id = 1 /\ tasks[1].pc = "done"
    /\ tasks[2].job_id = 1 /\ tasks[2].pc = "scheduled"
    /\ jobs[1].status = "pending"
    /\ jobs[1].current_iteration = 0
    /\ jobs[1].test_result = None
    /\ jobs[1].max_iterations = MaxIter

\* The status changes the run of a task makes, as claimed.
RunTransitions ==
    { <<"pending", "analyzing">>, <<"analyzing", "generating">>,
      <<"generating", "testing">>, <<"testing", "completed">>,
      <<"testing", "iterating">>, <<"iterating", "analyzing">> }
    \cup { <<st, "failed">> : st \in JobStatus \ Terminal }

\* The status changes of job id in this step, made by a task that is alone
\* on the job, are all in the set `allowed`, and ITERATING is written only
\* with budget left.
RunFollows(allowed) ==
    \A t \in DOMAIN tasks :
        (tasks[t].alone /\ Stepped(t)
            /\ jobs'[JobOf(t)].status # jobs[JobOf(t)].status) =>
           /\ <<jobs[JobOf(t)].status, jobs'[JobOf(t)].status>> \in allowed
           /\ jobs'[JobOf(t)].status = "iterating" =>
                 jobs'[JobOf(t)].current_iteration
                    < jobs'[JobOf(t)].max_iterations

ExpectedFeedback(t) ==
    IF tasks[t].cycles = 0 THEN <<>>
    ELSE _build_feedback([jobs[JobOf(t)] EXCEPT
                             !.test_result = tasks[t].last_score])

\* C9. In every iteration of every task, the Analyze call and the Generate
\* call carry the same feedback: the empty text in the task's first
\* iteration, later the Feedback Compiler's text for the score its previous
\* Test call returned.
C9_FeedbackCarried ==
    \A t \in DOMAIN tasks :
        /\ Len(tasks[t].calls) >= 1 =>
              /\ tasks[t].calls[1].service = "Analyzer"
              /\ tasks[t].pc \in {"analyze", "generate", "test"} =>
                    tasks[t].calls[1].payload.feedback = ExpectedFeedback(t)
        /\ Len(tasks[t].calls) >= 2 =>
              /\ tasks[t].calls[2].service = "Generator"
              /\ tasks[t].calls[2].payload.feedback
                    = tasks[t].calls[1].payload.feedback

\* Witness of C9: a Generate call of a second iteration is out, carrying a
\* feedback text that is not empty.
C9_Witness ==
    \E t \in DOMAIN tasks :
        /\ tasks[t].pc = "generate"
        /\ tasks[t].cycles = 1
        /\ tasks[t].calls[2].payload.feedback # <<>>

CallOrder == <<"Analyzer", "Generator", "Tester">>

Services(calls) == [i \in 1..Len(calls) |-> calls[i].service]

\* C10. The calls of an iteration are a prefix of (Analyze, Generate, Test),
\* extended one call at a time; a new iteration starts only after a whole
\* one (or as the first); a task alone on its job starts at most
\* max_iterations iterations; and after a failed call the task calls nothing
\* more.
C10_CallSequence ==
    /\ [](\A t \in DOMAIN tasks :
             /\ Len(tasks[t].calls) <= 3
             /\ Services(tasks[t].calls)
                   = SubSeq(CallOrder, 1, Len(tasks[t].calls))
             /\ tasks[t].alone =>
                   tasks[t].cycles
                      + (IF tasks[t].pc \in {"analyze", "generate", "test"}
                         THEN 1 ELSE 0)
                      <= jobs[JobOf(t)].max_iterations)
    /\ [][\A t \in DOMAIN tasks :
             /\ tasks'[t].calls # tasks[t].calls =>
                   \/ /\ Len(tasks'[t].calls) = Len(tasks[t].calls) + 1
                      /\ SubSeq(tasks'[t].calls, 1, Len(tasks[t].calls))
                            = tasks[t].calls
                   \/ /\ Len(tasks[t].calls) = 3
                      /\ tasks[t].pc = "loop"
                      /\ Len(tasks'[t].calls) = 1
                   \/ tasks'[t].calls = <<>> /\ tasks'[t].pc = "done"
             /\ tasks'[t].raised =>
                   tasks'[t].pc = "done" /\ tasks'[t].calls = <<>>]_vars

\* Witness of C10: a task alone on its job has its third call of its last
\* iteration out, after one full cycle or more.
C10_Witness ==
    \E t \in DOMAIN tasks :
        /\ tasks[t].alone /\ tasks[t].pc = "test"
        /\ Len(tasks[t].calls) = 3
        /\ tasks[t].cycles >= 1
        /\ tasks[t].cycles + 1 = jobs[JobOf(t)].max_iterations

\* The names the Orchestrator gives its collaborators (the service_name
\* arguments of _check_response), by the await a task stands at.
CollaboratorAt ==
    [analyze |-> "Analyzer", generate |-> "Generator", test |-> "Tester"]

\* The words of a traceback entry: the traceback of the except clause lists
\* the frames by method name (run, _analyze, ...), never by collaborator.
TracebackWords(message) ==
    {message.traceback[i] : i \in DOMAIN message.traceback}

\* The text of a FAILED message contains the collaborator's name: str(exc)
\* carries it ("[Name] status: detail"), or a traceback entry is that name.
Mentions(message, name) ==
    \/ /\ message.exc.type = "RuntimeError"
       /\ message.exc.service_name = name
    \/ name \in TracebackWords(message)

\* C11. Whenever a run ends FAILED because a collaborator call failed, the
\* job's message contains the name of the failing collaborator, and for a
\* non-success response it contains "[Name] status: detail" with that name,
\* the response's status and its detail.
C11_FailureNamesCollaborator ==
    [][\A t \in DOMAIN tasks :
          (Returns(t) /\ tasks'[t].raised) =>
             LET m    == jobs'[JobOf(t)].message
                 name == CollaboratorAt[tasks[t].pc]
             IN  /\ jobs'[JobOf(t)].status = "failed"
                 /\ m.text = "Error:"
                 /\ Mentions(m, name)
                 /\ m.exc.type = "RuntimeError" =>
                       /\ m.exc.status_code >= ErrorStatus
                       /\ m.exc.detail = ErrorResponse.json.detail]_vars

\* The result test_code has returned, if it has.
ReturnedResult == tester.result[1]

PassedDetails(r) == {i \in DOMAIN r.details : r.details[i].passed}

\* C12. Every TestResult test_code returns, after the loop or as a whole-run
\* failure, has 0 <= passed_pairs <= total_pairs and 0 <= accuracy <= 1;
\* with total_pairs > 0 its accuracy is passed_pairs / total_pairs rounded
\* to 4 decimals (no value of 4 decimals is nearer to the quotient), with
\* total_pairs = 0 it is 0.0; and passed_pairs is the number of details
\* with passed = true.
C12_ScoreArithmetic ==
    tester.result # None =>
        LET r == ReturnedResult
            d == r.accuracy * r.total_pairs - 10000 * r.passed_pairs
        IN  /\ 0 <= r.passed_pairs /\ r.passed_pairs <= r.total_pairs
            /\ 0 <= r.accuracy /\ r.accuracy <= 10000
            /\ r.total_pairs > 0 => 2 * d <= r.total_pairs
                                    /\ -2 * d <= r.total_pairs
            /\ r.total_pairs = 0 => r.accuracy = 0
            /\ r.passed_pairs = Cardinality(PassedDetails(r))

\* Witness of C12: a result over three pairs of which two passed, with the
\* quotient 2/3 rounded up to 0.6667.
C12_Witness ==
    /\ tester.result # None
    /\ ReturnedResult.total_pairs = 3
    /\ ReturnedResult.passed_pairs = 2
    /\ ReturnedResult.accuracy = 6667
    /\ Cardinality(PassedDetails(ReturnedResult)) = 2

\* The loop over the pairs has been entered.
PerPairAttempted == tester.i >= 1

\* C13. Once per-pair execution is attempted, the details are one entry per
\* input pair handled so far, in input order, each with its pair's id; so in
\* the result returned after the loop total_pairs = len(details) =
\* len(xml_pairs) and details[i].pair_id = xml_pairs[i].pair_id for every i.
C13_DetailsFollowPairs ==
    PerPairAttempted =>
        /\ Len(tester.details) <= Len(tester.xml_pairs)
        /\ \A i \in DOMAIN tester.details :
               tester.details[i].pair_id = tester.xml_pairs[i].pair_id
        /\ tester.result # None =>
               /\ ReturnedResult.details = tester.details
               /\ Len(ReturnedResult.details) = Len(tester.xml_pairs)
               /\ ReturnedResult.total_pairs = Len(ReturnedResult.details)

\* Witness of C13: a result for the pairs B, A, B in this order, of which the
\* middle one passed and the others failed.
C13_Witness ==
    /\ PerPairAttempted /\ tester.result # None
    /\ Len(tester.xml_pairs) = 3 /\ Len(ReturnedResult.details) = 3
    /\ [i \in 1..3 |-> tester.xml_pairs[i].pair_id] = <<"B", "A", "B">>
    /\ [i \in 1..3 |-> ReturnedResult.details[i].passed]
          = <<FALSE, TRUE, FALSE>>

\* The pair the loop of test_code is at, and what calling the entry point
\* for it gives.
AtPair == tester.pc = "pairs" /\ tester.i <= Len(tester.xml_pairs)

CurrentPair == tester.xml_pairs[tester.i]

CurrentCall == CallEntry(tester.module, CurrentPair.input_xml)

\* The detail the step has appended.
NewDetail == tester'.details[Len(tester'.details)]

\* The step handles the current pair and goes on with the loop.
LoopGoesOn ==
    /\ tester'.pc = "pairs"
    /\ tester'.i = tester.i + 1
    /\ Len(tester'.details) = Len(tester.details) + 1
    /\ SubSeq(tester'.details, 1, Len(tester.details)) = tester.details

\* C14. If the entry point raises for a pair, that pair gets a detail with
\* passed = false, a diagnostic carrying the exception, the expected excerpt
\* populated and the actual excerpt empty, and the loop goes on to the pairs
\* after it, whose details are computed and reported as well.
C14_RaisingPairIsIsolated ==
    [][(AtPair /\ CurrentCall.raised) =>
          /\ LoopGoesOn
          /\ NewDetail.pair_id = CurrentPair.pair_id
          /\ ~NewDetail.passed
          /\ NewDetail.diff = RuntimeErrorText(CurrentCall.exc)
          /\ NewDetail.expected_snippet
                = _snippet(CurrentPair.output_xml, MaxSnippet)
          /\ len(NewDetail.expected_snippet) > 0
          /\ NewDetail.actual_snippet = EmptyStr]_vars

\* A whole-run failure: every pair counted, none passed, accuracy 0.0, no
\* details and an error text.
IsWholeRunFailure(r) ==
    /\ r.total_pairs = Len(tester.xml_pairs)
    /\ r.passed_pairs = 0
    /\ r.accuracy = 0
    /\ r.details = <<>>
    /\ r.error_message # <<>>

\* C15. When loading the candidate fails (it does not compile, or executing
\* its module body raises), test_code returns a whole-run failure and the
\* entry point is invoked for no pair.
C15_LoadFailureIsWholeRun ==
    [][(tester.pc = "called" /\ _load_code_module(tester.code).raised) =>
          /\ tester'.pc = "returned"
          /\ tester'.result # None
          /\ IsWholeRunFailure(tester'.result[1])
          /\ tester'.invoked = <<>>]_vars

\* C16. If the loaded candidate exposes no callable transform_xml (the name
\* is missing, or bound to a value that is not callable), test_code returns
\* a whole-run failure and attempts no per-pair execution.
C16_EntryPointMustBeCallable ==
    [][(tester.pc = "loaded" /\ tester.module.transform_xml # "def") =>
          /\ tester'.pc = "returned"
          /\ tester'.result # None
          /\ IsWholeRunFailure(tester'.result[1])
          /\ ~PerPairAttempted'
          /\ tester'.invoked = <<>>]_vars

\* The exception a whole-run failure text carries.
ErrorOf(r) == r.error_message[1].exc

\* The details whose diagnostic is the runtime error of an ImportError.
ImportDenials ==
    {i \in DOMAIN tester.details :
        /\ Len(tester.details[i].diff) = 2
        /\ tester.details[i].diff[1].line = "Runtime error:"
        /\ tester.details[i].diff[1].exc.type = "ImportError"}

\* C17. An import statement of candidate code succeeds only for a module of
\* the allow-list: every module the candidate's namespace holds is one of
\* SAFE_MODULES.  An import of any other name raises an error naming that
\* module: at load time it gives a whole-run failure, at call time it fails
\* that pair only.
C17_ImportAllowList ==
    /\ tester.module.ns.modules \subseteq SAFE_MODULES
    /\ (tester.result # None /\ ReturnedResult.error_message # <<>>
        /\ ErrorOf(ReturnedResult).type = "ImportError") =>
           /\ IsWholeRunFailure(ReturnedResult)
           /\ ErrorOf(ReturnedResult).name \notin SAFE_MODULES
           /\ ErrorOf(ReturnedResult).name
                 \in {tester.code.top[k].arg : k \in DOMAIN tester.code.top}
    /\ \A i \in ImportDenials :
           /\ ~tester.details[i].passed
           /\ tester.details[i].diff[1].exc.name \notin SAFE_MODULES

\* C18. Whatever the candidate source contains, running it gives it no
\* filesystem, process or network access: through the builtins and the
\* modules the sandbox exposes no host access is ever obtained.
C18_NoHostAccess ==
    tester.module.ns.access = {}

\* C19. When the entry point returns a value that is not a str, only that
\* pair fails: it gets a detail with passed = false, a diagnostic naming the
\* returned type against the expected str, and as actual excerpt str(value)
\* cut to at most 300 characters; the Comparator is not invoked for the pair
\* and the loop goes on with the other pairs.
C19_NonStringFailsItsPairOnly ==
    [][(AtPair /\ ~CurrentCall.raised /\ CurrentCall.value.type # "str") =>
          /\ LoopGoesOn
          /\ NewDetail.pair_id = CurrentPair.pair_id
          /\ ~NewDetail.passed
          /\ NewDetail.diff = TypeMismatchText(CurrentCall.value.type)
          /\ NewDetail.actual_snippet.body = CurrentCall.value.s.body
          /\ len(NewDetail.actual_snippet)
                = Min(len(CurrentCall.value.s), MaxSnippet)
          /\ tester'.compared = tester.compared]_vars

\* C20. Every detail test_code produces has passed = true exactly when its
\* diagnostic is empty; when the entry point returned a str, passed is the
\* verdict of compare_xml(pair.output_xml, returned str), and the diagnostic
\* of a failing pair is xml_diff_report of the same two documents.
C20_VerdictIsComparators ==
    [][(AtPair /\ Len(tester'.details) = Len(tester.details) + 1) =>
          /\ NewDetail.passed <=> NewDetail.diff = <<>>
          /\ (~CurrentCall.raised /\ CurrentCall.value.type = "str") =>
                LET c == compare_xml(CurrentPair.output_xml,
                                     CurrentCall.value.s, TRUE)
                IN  /\ NewDetail.passed = c.is_equal
                    /\ ~NewDetail.passed =>
                          NewDetail.diff
                             = xml_diff_report(CurrentPair.output_xml,
                                               CurrentCall.value.s)]_vars

\* Witness of C20: a returned result with a passed detail whose diagnostic
\* is empty and a failed detail whose diagnostic is the Comparator's report
\* of one text difference.
C20_Witness ==
    /\ tester.pc = "returned"
    /\ \E i, j \in DOMAIN tester.details :
          /\ tester.details[i].passed /\ tester.details[i].diff = <<>>
          /\ ~tester.details[j].passed
          /\ Len(tester.details[j].diff) = 2
          /\ tester.details[j].diff[1].line = "Found difference(s):"
          /\ tester.details[j].diff[1].count = 1
          /\ tester.details[j].diff[2].d.kind = "Text"

\* The module as the loop finds it at position i of the call: as loaded,
\* then as each earlier pair's execution left it.
RECURSIVE ModuleAt(_)
ModuleAt(i) ==
    IF i = 1 THEN _load_code_module(tester.code).module
    ELSE [ModuleAt(i - 1) EXCEPT !.ns =
             _test_single_pair(ModuleAt(i - 1), tester.xml_pairs[i - 1]).ns]

\* What the entry point returns for the pair at position i of the call.
OutputFor(i) == CallEntry(ModuleAt(i), tester.xml_pairs[i].input_xml)

\* The entry point returns for pair i a document with the same tree as the
\* pair's expected output.
OutputEquivalent(i) ==
    LET r == OutputFor(i) IN
    /\ ~r.raised
    /\ r.value.type = "str"
    /\ ~parse_xml(r.value.s).raised
    /\ parse_xml(r.value.s).root = parse_xml(tester.xml_pairs[i].output_xml).root

\* The entry point returns for pair i the expected output of the pair but
\* for the text at /Root/Code/Value, which is expected to be "5" and is "05".
OutputDiffersAtValue(i) ==
    LET r == OutputFor(i) IN
    /\ ~r.raised
    /\ r.value.type = "str"
    /\ parse_xml(tester.xml_pairs[i].output_xml).root
          = Some(ValueDoc("5", 0).root[1])
    /\ parse_xml(r.value.s).root = Some(ValueDoc("05", 0).root[1])

\* C21. A run over two pairs, where the candidate's output for one pair is
\* equivalent to the expected output and its output for the other differs
\* from the expected output only in the text at /Root/Code/Value ("5"
\* expected, "05" returned), returns total_pairs = 2, passed_pairs = 1,
\* accuracy = 0.5; the first pair's detail passed, and the diagnostic of the
\* second names the path /Root/Code/Value and both values.
C21_OneOfTwoDiffersInText ==
    \A a, b \in 1..2 :
        (/\ tester.pc = "returned"
         /\ PerPairAttempted
         /\ Len(tester.xml_pairs) = 2
         /\ a # b
         /\ OutputEquivalent(a)
         /\ OutputDiffersAtValue(b)) =>
            LET r == ReturnedResult IN
            /\ r.total_pairs = 2
            /\ r.passed_pairs = 1
            /\ r.accuracy = 5000
            /\ r.details[a].passed
            /\ ~r.details[b].passed
            /\ r.details[b].pair_id = tester.xml_pairs[b].pair_id
            /\ \E k \in DOMAIN r.details[b].diff :
                  LET l == r.details[b].diff[k] IN
                  /\ l.line = "numbered"
                  /\ l.d.kind = "Text"
                  /\ l.d.at = <<QName("", "Root"), QName("", "Code"),
                                QName("", "Value")>>
                  /\ l.d.t1 = "5"
                  /\ l.d.t2 = "05"

\* Witness of C21: the run over the pairs B, A has returned, the candidate
\* returning B's expected document with other whitespace for B and "05" for
\* "5" for A; the result counts one passed pair of two.
C21_Witness ==
    /\ tester.pc = "returned"
    /\ PerPairAttempted
    /\ tester.xml_pairs = <<PairB, PairA>>
    /\ OutputEquivalent(1)
    /\ OutputDiffersAtValue(2)
    /\ ReturnedResult.passed_pairs = 1
    /\ Len(ReturnedResult.details[2].diff) = 2

\* The local names and the namespaces names are requalified with.
LocalNames == {"a", "b", "c", "k", "j", "r", "z"}

Namespaces == {"u", "w"}

\* The element e with every tag (if tags) and every attribute key (if keys)
\* whose local name is in names replaced by the name of the same local part
\* in the namespace ns.
RECURSIVE Requalified(_, _, _, _, _)
Requalified(e, ns, names, tags, keys) ==
    [tag |-> IF tags /\ e.tag.name \in names
             THEN QName(ns, e.tag.name) ELSE e.tag,
     text |-> e.text,
     attrib |-> [i \in DOMAIN e.attrib |->
                    IF keys /\ e.attrib[i].key.name \in names
                    THEN Attr(QName(ns, e.attrib[i].key.name),
                              e.attrib[i].value)
                    ELSE e.attrib[i]],
     children |-> [i \in DOMAIN e.children |->
                      Requalified(e.children[i], ns, names, tags, keys)]]

\* No element of the tree has two attributes of the same qualified name.
RECURSIVE WellFormed(_)
WellFormed(e) ==
    /\ \A i, j \in DOMAIN e.attrib :
           e.attrib[i].key = e.attrib[j].key => i = j
    /\ \A i \in DOMAIN e.children : WellFormed(e.children[i])

\* The documents a str's document becomes by such replacements (a str that
\* holds no document is left alone).
Requalifications(s) ==
    IF s.body.parse # "tree" THEN {s}
    ELSE {v \in {[s EXCEPT !.body.root =
                     Some(Requalified(s.body.root[1], ns, names, tk[1], tk[2]))] :
                    ns \in Namespaces,
                    names \in {{n} : n \in LocalNames} \cup {LocalNames},
                    tk \in {<<TRUE, FALSE>>, <<FALSE, TRUE>>, <<TRUE, TRUE>>}} :
             WellFormed(v.body.root[1])}

\* What compare_xml returns for two strs, as the application records it.
Compared(xml1, xml2) ==
    LET c == compare_xml(xml1, xml2, TRUE)
    IN  IF c.raised THEN None
        ELSE Some([is_equal |-> c.is_equal, diffs |-> c.diffs])

\* C22. With strip_ns at its default (the only way the Tester calls it),
\* what compare_xml returns, verdict and difference list, is unchanged when
\* element or attribute names of either document are replaced by namespace-
\* qualified names of the same local part.
C22_NamespaceInsensitive ==
    (fn.name = "compare_xml" /\ fn.pc = "returned" /\ fn.args.strip_ns) =>
        /\ \A v \in Requalifications(fn.args.xml1) :
               Compared(v, fn.args.xml2) = fn.out
        /\ \A v \in Requalifications(fn.args.xml2) :
               Compared(fn.args.xml1, v) = fn.out

\* Witness of C22: '<a xmlns:x="u"><x:b>1</x:b></a>' has been compared with
\* '<a><b>1</b></a>' and found equal, no difference recorded.
C22_Witness ==
    /\ fn.name = "compare_xml"
    /\ fn.pc = "returned"
    /\ fn.args.strip_ns
    /\ fn.args.xml1 =
          Str(0, DocA(Text(FALSE, ""), <<>>,
                      <<Element(QName("u", "b"), Text(FALSE, "1"),
                                <<>>, <<>>)>>, 31), 0)
    /\ fn.args.xml2 =
          Str(0, DocA(Text(FALSE, ""), <<>>, <<Leaf("b", "1")>>, 15), 0)
    /\ fn.out = Some([is_equal |-> TRUE, diffs |-> <<>>])

\* C23. compare_xml and xml_diff_report return for any two strs and never
\* raise; when either str fails to parse, compare_xml returns not-equal with
\* exactly one difference entry, which describes the parse error.
C23_ComparatorNeverRaises ==
    fn.name \in {"compare_xml", "xml_diff_report"} =>
        /\ fn.pc # "raised"
        /\ (/\ fn.name = "compare_xml"
            /\ fn.pc = "returned"
            /\ \/ parse_xml(fn.args.xml1).raised
               \/ parse_xml(fn.args.xml2).raised) =>
               /\ ~fn.out[1].is_equal
               /\ Len(fn.out[1].diffs) = 1
               /\ fn.out[1].diffs[1].kind = "XML parse error"

\* The lines of a report that are of one kind.
LinesOf(report, kind) == {k \in DOMAIN report : report[k].line = kind}

\* C24. xml_diff_report returns the one line "XML documents are identical."
\* when compare_xml finds the documents equal; otherwise, with n differences
\* recorded, a heading, then the first min(n, 20) differences numbered from
\* 1 in the recorded order, then one line "... and n - 20 more" when n > 20
\* and no such line when n <= 20.
C24_ReportListsFirstTwenty ==
    (fn.name = "xml_diff_report" /\ fn.pc = "returned") =>
        LET c      == compare_xml(fn.args.xml1, fn.args.xml2, TRUE)
            n      == Len(c.diffs)
            m      == IF n <= 20 THEN n ELSE 20
            report == fn.out[1]
        IN  IF c.is_equal
            THEN report = <<[line |-> "XML documents are identical."]>>
            ELSE /\ Len(report) = 1 + m + (IF n > 20 THEN 1 ELSE 0)
                 /\ report[1].line = "Found difference(s):"
                 /\ report[1].count = n
                 /\ \A i \in 1..m :
                        /\ report[i + 1].line = "numbered"
                        /\ report[i + 1].number = i
                        /\ report[i + 1].d = c.diffs[i]
                 /\ LinesOf(report, "numbered") = 2..(m + 1)
                 /\ LinesOf(report, "... and more")
                       = (IF n > 20 THEN {m + 2} ELSE {})
                 /\ n > 20 => report[m + 2].count = n - 20

\* Witness of C24: the report of two documents with 21 differences has been
\* returned: 20 numbered lines and the line "... and 1 more".
C24_Witness ==
    /\ fn.name = "xml_diff_report"
    /\ fn.pc = "returned"
    /\ Len(compare_xml(fn.args.xml1, fn.args.xml2, TRUE).diffs) = 21
    /\ Len(fn.out[1]) = 22
    /\ fn.out[1][21].number = 20
    /\ fn.out[1][22] = [line |-> "... and more", count |-> 1]

\* An application of _compare_elements with strip_ns at its default has
\* returned.
ElementsCompared ==
    fn.name = "_compare_elements" /\ fn.pc = "returned" /\ fn.args.strip_ns

\* C29. When the two elements _compare_elements is given have different
\* local tag names, it records exactly one difference, the tag mismatch, and
\* nothing for their texts, attributes, child counts or descendants,
\* whatever these are; so does compare_xml for two documents whose roots
\* have different local tag names.
C29_TagMismatchStops ==
    /\ (ElementsCompared /\ fn.args.e1.tag.name # fn.args.e2.tag.name) =>
           /\ Len(fn.out[1]) = 1
           /\ fn.out[1][1].kind = "Tag mismatch"
    /\ (/\ fn.name = "compare_xml" /\ fn.pc = "returned" /\ fn.args.strip_ns
        /\ ~parse_xml(fn.args.xml1).raised
        /\ ~parse_xml(fn.args.xml2).raised
        /\ parse_xml(fn.args.xml1).root[1].tag.name
              # parse_xml(fn.args.xml2).root[1].tag.name) =>
           /\ ~fn.out[1].is_equal
           /\ Len(fn.out[1].diffs) = 1
           /\ fn.out[1].diffs[1].kind = "Tag mismatch"

\* Witness of C29: _compare_elements has returned one entry for a <z> and an
\* <a> that also differ in text, attributes, number of children and the
\* text of the first child.
C29_Witness ==
    /\ ElementsCompared
    /\ fn.args.e1.tag.name = "z"
    /\ fn.args.e2.tag.name = "a"
    /\ fn.args.e1.text.core # fn.args.e2.text.core
    /\ AttribDict(fn.args.e1.attrib, TRUE) # AttribDict(fn.args.e2.attrib, TRUE)
    /\ Len(fn.args.e1.children) = 2
    /\ Len(fn.args.e2.children) = 1
    /\ fn.args.e1.children[1].text.core # fn.args.e2.children[1].text.core
    /\ Len(fn.out[1]) = 1

\* The entries of a difference list that are of one kind and at one path.
EntriesAt(diffs, kind, current) ==
    {k \in DOMAIN diffs : diffs[k].kind = kind /\ diffs[k].at = current}

\* C30. For two elements of the same local tag, _compare_elements records
\* exactly one entry for the node when the texts differ after trimming and
\* none when they do not (so none for a difference in surrounding
\* whitespace), and exactly one entry for the node when the attribute
\* mappings, keys stripped of their namespace, differ in any way and none
\* when they do not; and whatever else it records is what it records for
\* the same elements without these two differences: the comparison of the
\* attributes, of the child counts and of the children goes on.
C30_TextAndAttributes ==
    (ElementsCompared /\ fn.args.e1.tag.name = fn.args.e2.tag.name) =>
        LET e1      == fn.args.e1
            e2      == fn.args.e2
            diffs   == fn.out[1]
            current == Append(fn.args.path, QName("", e1.tag.name))
            Other(d) == ~(d.kind \in {"Text", "Attributes"} /\ d.at = current)
        IN  /\ Cardinality(EntriesAt(diffs, "Text", current))
                  = (IF e1.text.core # e2.text.core THEN 1 ELSE 0)
            /\ Cardinality(EntriesAt(diffs, "Attributes", current))
                  = (IF AttribDict(e1.attrib, TRUE) # AttribDict(e2.attrib, TRUE)
                     THEN 1 ELSE 0)
            /\ SelectSeq(diffs, Other)
                  = _compare_elements([e1 EXCEPT !.text = e2.text,
                                                 !.attrib = e2.attrib],
                                      e2, fn.args.path, TRUE)

\* Witness of C30: for two <a> that differ in text, in both attributes, in
\* the number of children and in the text of the first child,
\* _compare_elements has returned four entries: the text, the attributes,
\* the child count and the child's text.
C30_Witness ==
    /\ ElementsCompared
    /\ fn.args.e1.tag.name = "a"
    /\ fn.args.e2.tag.name = "a"
    /\ Len(fn.args.e1.attrib) = 2
    /\ Len(fn.args.e2.attrib) = 2
    /\ \A i \in 1..2 : fn.args.e1.attrib[i].value # fn.args.e2.attrib[i].value
    /\ Len(fn.out[1]) = 4
    /\ fn.out[1][1].kind = "Text"
    /\ fn.out[1][2].kind = "Attributes"
    /\ fn.out[1][3].kind = "Child count"
    /\ fn.out[1][4].kind = "Text"

\* An application of _build_feedback has returned.
FeedbackCompiled == fn.name = "_build_feedback" /\ fn.pc = "returned"

\* C25. _build_feedback returns the empty text when the job has no score
\* and whenever the score's accuracy is at or above the job's threshold;
\* it returns a text that is not empty whenever there is a score whose
\* accuracy is below the threshold.
C25_FeedbackOnlyBelowThreshold ==
    FeedbackCompiled =>
        LET job == fn.args.job IN
        /\ job.test_result = None => fn.out[1] = <<>>
        /\ job.test_result # None =>
              (job.test_result[1].accuracy >= job.accuracy_threshold
                  <=> fn.out[1] = <<>>)

\* Witness of C25: a score of 19 of 20, exactly the threshold 0.95, with a
\* failed detail, has compiled to the empty text.
C25_Witness ==
    /\ FeedbackCompiled
    /\ fn.args.job.test_result = Some(AtThreshold)
    /\ fn.args.job.accuracy_threshold = 9500
    /\ \E i \in DOMAIN AtThreshold.details : ~AtThreshold.details[i].passed
    /\ fn.out[1] = <<>>

\* The positions of the section labels in a feedback text, and the j-th of
\* them.
Labels(text) == {k \in DOMAIN text : text[k].line = "--- Pair FAILED ---"}

Label(text, j) ==
    CHOOSE k \in Labels(text) :
        Cardinality({m \in Labels(text) : m < k}) = j - 1

\* The lines of the j-th section after its label, up to the next label or
\* the end of the text.
SectionBody(text, j) ==
    SubSeq(text, Label(text, j) + 1,
           IF j = Cardinality(Labels(text)) THEN Len(text)
           ELSE Label(text, j + 1) - 1)

Failed(detail) == ~detail.passed

\* C26. For a score below the threshold the feedback is, in this order: the
\* header with the accuracy as a percentage and the passed/total counts; the
\* top-level error text if there is one; then one labelled section for each
\* detail that did not pass, in the order of the details and with the id of
\* its pair, that holds the detail's diagnostic as it is or, when the
\* diagnostic is empty, the expected and the actual excerpt (nothing when
\* both excerpts are empty too).  No other section is there, so none for a
\* passed detail; and the score determines every line of the text.
C26_FeedbackLayout ==
    (/\ FeedbackCompiled
     /\ fn.args.job.test_result # None
     /\ fn.args.job.test_result[1].accuracy
           < fn.args.job.accuracy_threshold) =>
        LET r      == fn.args.job.test_result[1]
            text   == fn.out[1]
            failed == SelectSeq(r.details, Failed)
            first  == IF Labels(text) = {} THEN Len(text) + 1
                      ELSE Label(text, 1)
            header == SubSeq(text, 1, first - 1)
        IN  /\ Len(header) = (IF r.error_message # "" THEN 5 ELSE 3)
            /\ header[1] = [line |-> "Previous iteration accuracy:",
                            percent |-> Percent(r.accuracy)]
            /\ header[2] = [line |-> "Passed pairs:",
                            passed |-> r.passed_pairs,
                            total |-> r.total_pairs]
            /\ header[3] = [line |-> ""]
            /\ r.error_message # "" =>
                  /\ header[4] = [line |-> "Error:", text |-> r.error_message]
                  /\ header[5] = [line |-> ""]
            /\ Cardinality(Labels(text)) = Len(failed)
            /\ \A j \in DOMAIN failed :
                  /\ text[Label(text, j)].pair_id = failed[j].pair_id
                  /\ SectionBody(text, j) =
                        (IF failed[j].diff # ""
                         THEN <<[line |-> "Diff:", text |-> failed[j].diff]>>
                         ELSE IF failed[j].expected_snippet # ""
                                 \/ failed[j].actual_snippet # ""
                         THEN <<[line |-> "Expected snippet:",
                                 text |-> failed[j].expected_snippet],
                                [line |-> "Actual snippet:",
                                 text |-> failed[j].actual_snippet]>>
                         ELSE <<>>)
                        \o <<[line |-> ""]>>

\* Witness of C26: the feedback of a score with a top-level error and the
\* details q (failed, with a diagnostic), p (passed), r (failed, excerpts
\* only) has been compiled: five header lines and two sections.
C26_Witness ==
    /\ FeedbackCompiled
    /\ fn.args.job.test_result # None
    /\ fn.args.job.test_result[1].error_message # ""
    /\ Len(fn.args.job.test_result[1].details) = 3
    /\ fn.args.job.test_result[1].details[1].pair_id = "q"
    /\ fn.args.job.test_result[1].details[2].pair_id = "p"
    /\ fn.args.job.test_result[1].details[3].pair_id = "r"
    /\ Len(fn.out[1]) = 12
    /\ Cardinality(Labels(fn.out[1])) = 2
    /\ fn.out[1][7].text = "diff_q"
    /\ fn.out[1][10].text = "out_r"
    /\ fn.out[1][11].text = "act_r"

\* C27. A step of the run of a job changes, in the registry, nothing but the
\* record of that job: no record of another job changes, no job is added or
\* removed, and the frame of no run of another job changes (the runs share
\* nothing else: the Orchestrator holds the three URLs only, and each run
\* opens its own HTTP client).
C27_RunsAreIsolated ==
    [][\A t \in DOMAIN tasks :
          Stepped(t) =>
             /\ DOMAIN jobs' = DOMAIN jobs
             /\ \A id \in DOMAIN jobs :
                    id # JobOf(t) => jobs'[id] = jobs[id]
             /\ DOMAIN tasks' = DOMAIN tasks
             /\ \A u \in DOMAIN tasks :
                    JobOf(u) # JobOf(t) => tasks'[u] = tasks[u]
             /\ tester' = tester]_vars

\* Witness of C27: the runs of two jobs are in flight at once, one awaiting
\* the Tester in its second iteration and one awaiting the Generator in its
\* first, each the only run of its job.
C27_Witness ==
    \E t, u \in DOMAIN tasks :
        /\ JobOf(t) # JobOf(u)
        /\ tasks[t].alone /\ tasks[u].alone
        /\ tasks[t].pc = "test"
        /\ jobs[JobOf(t)].current_iteration = 2
        /\ jobs[JobOf(t)].status = "testing"
        /\ tasks[u].pc = "generate"
        /\ jobs[JobOf(u)].current_iteration = 1
        /\ jobs[JobOf(u)].status = "generating"

\* The diagnostic texts of the Tester's call: the diagnostic of every detail
\* and the top-level error of the result.
DiagnosticTexts ==
    {tester.details[i].diff : i \in DOMAIN tester.details}
    \cup (IF tester.result # None
          THEN {ReturnedResult.error_message} ELSE {})

\* C28. The length of every diagnostic text has a bound that does not depend
\* on the texts the candidate produces: in particular no diagnostic is as
\* long as the long texts of candidates, whatever length LongText these are
\* given.
C28_DiagnosticsBounded ==
    \A text \in DiagnosticTexts : MinLength(text) < LongText

\* What _compare_elements records for the first k children of two elements,
\* child i of one against child i of the other.
RECURSIVE Pairwise(_, _, _, _)
Pairwise(e1, e2, current, k) ==
    IF k = 0 THEN <<>>
    ELSE Pairwise(e1, e2, current, k - 1)
         \o _compare_elements(e1.children[k], e2.children[k], current, TRUE)

\* C31. For two elements of the same local tag with m and n children,
\* _compare_elements records exactly one child-count entry for the node
\* when m # n and none when m = n; what it records besides the node's own
\* entries is what it records for child i against child i, for i up to
\* min(m, n) in this order, and nothing else: the children beyond min(m, n)
\* get no entries, and children are never matched across positions, so two
\* child lists that hold the same children in another order are found
\* different.
C31_ChildrenByPosition ==
    (ElementsCompared /\ fn.args.e1.tag.name = fn.args.e2.tag.name) =>
        LET e1      == fn.args.e1
            e2      == fn.args.e2
            m       == Len(e1.children)
            n       == Len(e2.children)
            diffs   == fn.out[1]
            current == Append(fn.args.path, QName("", e1.tag.name))
            Below(d) == ~(d.kind \in {"Text", "Attributes", "Child count"}
                          /\ d.at = current)
        IN  /\ Cardinality(EntriesAt(diffs, "Child count", current))
                  = (IF m # n THEN 1 ELSE 0)
            /\ SelectSeq(diffs, Below)
                  = Pairwise(e1, e2, current, IF m <= n THEN m ELSE n)

\* Witness of C31: two <a> of two children each, a <b> and a <c>, in
\* opposite orders, have been compared: no child-count entry, and one tag
\* mismatch for each position.
C31_Witness ==
    /\ ElementsCompared
    /\ fn.args.e1.tag.name = "a"
    /\ fn.args.e2.tag.name = "a"
    /\ Len(fn.args.e1.children) = 2
    /\ Len(fn.args.e2.children) = 2
    /\ fn.args.e1.children[1] = fn.args.e2.children[2]
    /\ fn.args.e1.children[2] = fn.args.e2.children[1]
    /\ fn.args.e1.children[1] # fn.args.e1.children[2]
    /\ Len(fn.out[1]) = 2
    /\ fn.out[1][1].kind = "Tag mismatch"
    /\ fn.out[1][2].kind = "Tag mismatch"

\* Two trees match position by position: at every pair of corresponding
\* nodes the same local tag name, the same trimmed text, the same mapping
\* of attributes (keys without namespace) and the same number of children.
RECURSIVE TreesMatch(_, _)
TreesMatch(e1, e2) ==
    /\ e1.tag.name = e2.tag.name
    /\ e1.text.core = e2.text.core
    /\ AttribDict(e1.attrib, TRUE) = AttribDict(e2.attrib, TRUE)
    /\ Len(e1.children) = Len(e2.children)
    /\ \A i \in DOMAIN e1.children :
           TreesMatch(e1.children[i], e2.children[i])

\* An application of compare_xml, strip_ns at its default, to two strs that
\* both parse has returned.
DocumentsCompared ==
    /\ fn.name = "compare_xml"
    /\ fn.pc = "returned"
    /\ fn.args.strip_ns
    /\ ~parse_xml(fn.args.xml1).raised
    /\ ~parse_xml(fn.args.xml2).raised

\* C32. For two well-formed documents compare_xml's verdict is equal
\* exactly when its difference list is empty, and that exactly when the two
\* trees match position by position in local tag name, trimmed text,
\* namespace-stripped attribute mapping and number of children.
C32_EqualIffTreesMatch ==
    DocumentsCompared =>
        /\ fn.out[1].is_equal <=> fn.out[1].diffs = <<>>
        /\ fn.out[1].diffs = <<>> <=>
              TreesMatch(parse_xml(fn.args.xml1).root[1],
                         parse_xml(fn.args.xml2).root[1])

\* Witness of C32: two documents whose trees are not the same values (a
\* namespace, surrounding whitespace or the order of attributes differs)
\* but match position by position have been found equal.
C32_Witness ==
    /\ DocumentsCompared
    /\ parse_xml(fn.args.xml1).root # parse_xml(fn.args.xml2).root
    /\ TreesMatch(parse_xml(fn.args.xml1).root[1],
                  parse_xml(fn.args.xml2).root[1])
    /\ fn.out[1].is_equal
    /\ fn.out[1].diffs = <<>>

\* C33. The detail of a pair depends on the candidate source and that pair
\* only: every detail of a Test call is the detail the same pair gets from
\* the freshly loaded candidate, whatever pairs were executed before it.
C33_PairsAreIndependent ==
    \A i \in DOMAIN tester.details :
        tester.details[i]
           = _test_single_pair(_load_code_module(tester.code).module,
                               tester.xml_pairs[i]).detail

\* C34. The candidate an iteration stores on the job carries that
\* iteration's number: while the only run of a job awaits the Tester, the
\* job holds a GeneratedCode whose iteration is the job's current_iteration.
C34_CandidateCarriesIteration ==
    \A t \in DOMAIN tasks :
        (tasks[t].alone /\ tasks[t].pc = "test") =>
            LET job == jobs[JobOf(t)] IN
            /\ job.generated_code # None
            /\ job.generated_code[1].iteration = job.current_iteration

\* C35. In every reachable state the iteration counter of every job lies
\* between 0 and the job's max_iterations (which is never negative here),
\* also when a re-run is requested while an earlier run of the same job is
\* in flight: the loop condition and the increment are one step, with no
\* await between them.
C35_IterationWithinBudget ==
    \A id \in Registered :
        jobs[id].max_iterations >= 0 =>
            /\ 0 <= jobs[id].current_iteration
            /\ jobs[id].current_iteration <= jobs[id].max_iterations

\* Two runs of one job are in flight, the second scheduled by a re-run
\* request that reset the counter, and the counter has reached the budget.
C35_Witness ==
    \E id \in Registered :
        /\ Cardinality(Running(id)) = 2
        /\ \A t \in Running(id) : tasks[t].pc \in {"analyze", "generate", "test"}
        /\ jobs[id].max_iterations > 0
        /\ jobs[id].current_iteration = jobs[id].max_iterations

\* C36. A job whose status is COMPLETED holds an analysis, a generated code
\* and a test result, and has counted at least one iteration, whatever its
\* max_iterations.
C36_CompletedHoldsResults ==
    \A id \in Registered :
        jobs[id].status = "completed" =>
            /\ jobs[id].analysis # None
            /\ jobs[id].generated_code # None
            /\ jobs[id].test_result # None
            /\ jobs[id].current_iteration >= 1

\* The fields of its job that run t has stored in the iteration it is in,
\* seen from a step of t: the answer of a call has been stored when the run
\* went on to its next call, and the Test answer when the step is not a
\* failure.
StoredThisIteration(t) ==
    {f \in {"analysis"} : Len(tasks[t].calls) >= 2}
    \cup {f \in {"generated_code"} : Len(tasks[t].calls) >= 3}
    \cup {f \in {"test_result"} :
              Len(tasks[t].calls) >= 3 /\ ~tasks'[t].raised}

\* C37. When a run that is alone on its job returns and leaves the job
\* terminal (COMPLETED or FAILED) with a generated code and a test result,
\* the job's analysis, generated code and test result come from one
\* iteration: the iteration the run ends in has stored all three of them
\* (the result is the Tester's answer for the stored code, generated from
\* the stored analysis) or none of them (the three are those of the
\* iteration before).
C37_ResultsOfOneIteration ==
    [][\A t \in DOMAIN tasks :
          (/\ Returns(t)
           /\ tasks[t].alone
           /\ jobs'[JobOf(t)].status \in Terminal
           /\ jobs'[JobOf(t)].generated_code # None
           /\ jobs'[JobOf(t)].test_result # None)
          => /\ StoredThisIteration(t)
                   \in {{}, {"analysis", "generated_code", "test_result"}}
             /\ Len(tasks[t].calls) >= 3 =>
                   /\ tasks[t].calls[2].payload.analysis
                          = jobs'[JobOf(t)].analysis
                   /\ tasks[t].calls[3].payload.code
                          = jobs'[JobOf(t)].generated_code[1].code]_vars

====
